---- MODULE Spec2Model ----
(***************************************************************************)
(* Model of the eSIM deactivation engine (DSI-OMS-RPA/desativacao-esim-rsp)*)
(*                                                                         *)
(* Strings whose characters the code inspects (ICCIDs, range bounds) are   *)
(* sequences of character codes: 0..9 are the digits '0'..'9', LETTER is a *)
(* printable non-digit, SPACE is whitespace, CTRL is a non-printable       *)
(* character, FULLWIDTH + d is the fullwidth digit d (U+FF10..U+FF19), a   *)
(* decimal digit for str.isdigit() and int() that sorts after '9', and     *)
(* SUPERSCRIPT is the superscript two (U+00B2), a digit for str.isdigit()  *)
(* on which int() raises ValueError; it sorts between '9' and the          *)
(* fullwidth digits.                                                       *)
(* Python's None is the value None below.  Strings the code only compares  *)
(* or concatenates (statuses, messages) are TLA+ strings.                  *)
(***************************************************************************)
EXTENDS Integers, Sequences, FiniteSets, TLC

(***************************************************************************)
(* Bounds of the model                                                     *)
(***************************************************************************)
\* largest number of <CvtNginPrepaidData> items in a modelled XML file
MaxItems == 2
\* largest configured retry_policy.max_attempts
MaxAttemptsCfg == 3
\* largest configured process.batch_size
MaxBatchSize == 2
\* largest number of SUCCESS plus FAILED outcomes in the verdict computation
MaxOutcomes == 21
\* largest number of INVALID outcomes in the verdict computation
MaxInvalid == 2
\* largest attempt number (and smallest, negated) passed to can_retry and next_delay
MaxAttemptArg == 4
\* largest length of the range bounds in the calls of is_esim on short strings
MaxDigits == 2
\* number of processes that run the engine on the host at the same time
NumProcs == 2
\* largest number of files _discover_files lists in a run
MaxFiles == 2
\* largest number of distinct eligible ICCIDs in a file of a run
MaxRunRecords == 3

(***************************************************************************)
(* Program constants                                                       *)
(***************************************************************************)
\* RetryPolicy.delay_seconds and RetryPolicy.backoff_factor (defaults)
delay_seconds == 5
backoff_factor == 2
\* ProcessConfig.success_threshold = 0.95, kept as the exact ratio 95/100
success_threshold_num == 95
success_threshold_den == 100
\* XMLProcessor.parse_file: accepted ICCID lengths
MinIccidLen == 19
MaxIccidLen == 22

LETTER == 10
SPACE == 11
CTRL == 12
FULLWIDTH == 20
SUPERSCRIPT == 15
None == <<-1>>
UNKNOWN == <<-2>>

\* rules_from_config: default esim_range start and end, as str() prints them
EsimStart == <<8,9,2,3,8,0,1,0,0,0,0,1,0,1,0,0,0,0,0,0>>
EsimEnd == <<8,9,2,3,8,0,1,0,0,0,0,1,0,1,9,9,9,9,9,9>>

(***************************************************************************)
(* String helpers (Python str methods used by the code)                    *)
(***************************************************************************)
RECURSIVE LStrip(_)
LStrip(s) ==
    IF s # <<>> /\ Head(s) = SPACE THEN LStrip(Tail(s)) ELSE s

RECURSIVE RStrip(_)
RStrip(s) ==
    IF s # <<>> /\ s[Len(s)] = SPACE THEN RStrip(SubSeq(s, 1, Len(s) - 1)) ELSE s

\* str.strip()
Strip(s) == RStrip(LStrip(s))

\* ch.isdigit() of one character
IsDigitChar(ch) ==
    ch \in 0..9 \/ ch \in FULLWIDTH..(FULLWIDTH + 9) \/ ch = SUPERSCRIPT

\* int(ch) succeeds on the character (it raises ValueError on a superscript
\* digit, which isdigit() accepts)
HasIntValue(ch) == ch \in 0..9 \/ ch \in FULLWIDTH..(FULLWIDTH + 9)

\* int(s) succeeds on the isdigit() string s
CanParseInt(s) == \A n \in 1..Len(s) : HasIntValue(s[n])

\* int(ch) of a digit character
DigitValue(ch) == IF ch >= FULLWIDTH THEN ch - FULLWIDTH ELSE ch

\* str.isdigit(): non-empty and every character a digit
IsDigit(s) == s # <<>> /\ \A i \in 1..Len(s) : IsDigitChar(s[i])

IsPrintableChar(ch) == ch # CTRL

\* "".join(ch for ch in s if ch.isprintable())
Printable(s) == SelectSeq(s, IsPrintableChar)

\* StrLeq as the strict order <
RECURSIVE StrLeq_Strict(_, _)
StrLeq_Strict(a, b) ==
    IF b = <<>> THEN FALSE
    ELSE IF a = <<>> THEN TRUE
    ELSE IF Head(a) < Head(b) THEN TRUE
    ELSE IF Head(a) > Head(b) THEN FALSE
    ELSE StrLeq_Strict(Tail(a), Tail(b))

\* Python's <= on two strings: lexicographic by code point, a proper prefix
\* is smaller
RECURSIVE StrLeq(_, _)
StrLeq(a, b) ==
    IF a = <<>> THEN TRUE
    ELSE IF b = <<>> THEN FALSE
    ELSE IF Head(a) < Head(b) THEN TRUE
    ELSE IF Head(a) > Head(b) THEN FALSE
    ELSE StrLeq(Tail(a), Tail(b))

\* int(s) of a digit string, kept as its digits without leading zeros
\* (the values exceed the integers TLC computes with)
RECURSIVE ParseInt(_)
ParseInt(s) ==
    IF s # <<>> /\ DigitValue(Head(s)) = 0 THEN ParseInt(Tail(s))
    ELSE [n \in 1..Len(s) |-> DigitValue(s[n])]

\* IntLeq comparing the digits as text whatever their number
IntLeq_AsText(x, y) == StrLeq(x, y)

\* <= on two integers given as digits without leading zeros
IntLeq(x, y) ==
    \/ Len(x) < Len(y)
    \/ Len(x) = Len(y) /\ StrLeq(x, y)

(***************************************************************************)
(* core/business_rules.py : EsimRange                                      *)
(***************************************************************************)
\* LuhnTerm doubling the other half of the positions
LuhnTerm_WrongParity(num_str, i) ==
    LET parity == Len(num_str) % 2
        d == DigitValue(num_str[i + 1])
    IN  IF i % 2 # parity
        THEN (IF 2 * d > 9 THEN 2 * d - 9 ELSE 2 * d)
        ELSE d

\* the contribution of the character at 0-based index i to the Luhn total
LuhnTerm(num_str, i) ==
    LET parity == Len(num_str) % 2
        d == DigitValue(num_str[i + 1])
    IN  IF i % 2 = parity
        THEN (IF 2 * d > 9 THEN 2 * d - 9 ELSE 2 * d)
        ELSE d

RECURSIVE LuhnTotal(_, _)
LuhnTotal(num_str, n) ==
    IF n = 0 THEN 0 ELSE LuhnTotal(num_str, n - 1) + LuhnTerm(num_str, n - 1)

luhn_valid(num_str) ==
    IF ~IsDigit(num_str) THEN FALSE
    ELSE LuhnTotal(num_str, Len(num_str)) % 10 = 0

\* luhn_valid leaves with the ValueError of int(ch) instead of returning
luhn_valid_raises(num_str) == IsDigit(num_str) /\ ~CanParseInt(num_str)

\* is_esim without the isdigit() test of the identifier
is_esim_NoDigitCheck(start_s, end_s, iccid) ==
    IF iccid = None \/ iccid = <<>> THEN FALSE
    ELSE LET iccid_s == Strip(iccid) IN
         IF ~(IsDigit(start_s) /\ IsDigit(end_s)) THEN FALSE
         ELSE IF Len(iccid_s) = Len(start_s) /\ Len(start_s) = Len(end_s)
              THEN StrLeq(start_s, iccid_s) /\ StrLeq(iccid_s, end_s)
         ELSE IF Len(iccid_s) = Len(start_s) + 1 /\ luhn_valid(iccid_s)
              THEN LET candidate == SubSeq(iccid_s, 1, Len(iccid_s) - 1)
                   IN  StrLeq(start_s, candidate) /\ StrLeq(candidate, end_s)
         ELSE IF ~(/\ CanParseInt(iccid_s)
                   /\ CanParseInt(start_s)
                   /\ CanParseInt(end_s))
              THEN FALSE
         ELSE /\ IntLeq(ParseInt(start_s), ParseInt(iccid_s))
              /\ IntLeq(ParseInt(iccid_s), ParseInt(end_s))

is_esim(start_s, end_s, iccid) ==
    IF iccid = None \/ iccid = <<>> THEN FALSE
    ELSE LET iccid_s == Strip(iccid) IN
         IF ~IsDigit(iccid_s) THEN FALSE
         ELSE IF ~(IsDigit(start_s) /\ IsDigit(end_s)) THEN FALSE
         ELSE IF Len(iccid_s) = Len(start_s) /\ Len(start_s) = Len(end_s)
              THEN StrLeq(start_s, iccid_s) /\ StrLeq(iccid_s, end_s)
         ELSE IF Len(iccid_s) = Len(start_s) + 1 /\ luhn_valid(iccid_s)
              THEN LET candidate == SubSeq(iccid_s, 1, Len(iccid_s) - 1)
                   IN  StrLeq(start_s, candidate) /\ StrLeq(candidate, end_s)
         ELSE IF ~(/\ CanParseInt(iccid_s)
                   /\ CanParseInt(start_s)
                   /\ CanParseInt(end_s))
              THEN FALSE
         ELSE /\ IntLeq(ParseInt(start_s), ParseInt(iccid_s))
              /\ IntLeq(ParseInt(iccid_s), ParseInt(end_s))

\* is_esim leaves with an exception instead of returning: the ValueError of
\* luhn_valid, called outside the try block when the identifier is one
\* character longer than start
is_esim_raises(start_s, end_s, iccid) ==
    /\ iccid # None
    /\ iccid # <<>>
    /\ IsDigit(Strip(iccid))
    /\ IsDigit(start_s)
    /\ IsDigit(end_s)
    /\ ~(Len(Strip(iccid)) = Len(start_s) /\ Len(start_s) = Len(end_s))
    /\ Len(Strip(iccid)) = Len(start_s) + 1
    /\ luhn_valid_raises(Strip(iccid))

(***************************************************************************)
(* core/business_rules.py : RetryPolicy                                    *)
(***************************************************************************)
\* can_retry allowing one attempt more
can_retry_Inclusive(policy_max, attempt) == attempt <= policy_max

can_retry(policy_max, attempt) == attempt < policy_max

RECURSIVE Pow(_, _)
Pow(b, e) == IF e <= 0 THEN 1 ELSE b * Pow(b, e - 1)

\* next_delay with the exponent off by one
next_delay_OffByOne(attempt) ==
    LET a == IF attempt <= 0 THEN 1 ELSE attempt
    IN  delay_seconds * Pow(backoff_factor, a)

next_delay(attempt) ==
    LET a == IF attempt <= 0 THEN 1 ELSE attempt
    IN  delay_seconds * Pow(backoff_factor, a - 1)

(***************************************************************************)
(* Inputs of a run: the XML documents and the remote responses modelled    *)
(***************************************************************************)
IccidA == <<8,9,2,3,8,0,1,0,0,0,0,1,0,1,0,0,0,0,0,1>>
IccidB == <<8,9,2,3,8,0,1,0,0,0,0,1,0,1,5,6,7,8,9,0>>
\* IccidB followed by its Luhn check digit (21 characters)
IccidBLuhn == IccidB \o <<1>>
\* first ICCID above the eSIM range
IccidOut == <<8,9,2,3,8,0,1,0,0,0,0,1,0,2,0,0,0,0,0,0>>
\* 18 digits around a non-printable character
IccidShort == <<8,9,2,3,8,0,1,0,0,0,CTRL,0,1,0,1,5,6,7,8>>
IccidAlpha == <<LETTER,LETTER,LETTER,1,2,3>>

\* text of the <Action> element; "None" is Python's None (element absent)
ActionTexts == {"DEACTIVATE", "Deactivate", "ACTIVATE", "None"}

\* str.upper() on the action texts
Upper(a) ==
    CASE a = "Deactivate" -> "DEACTIVATE"
      [] OTHER -> a

\* the <CvtNginPrepaidData> items a modelled file is made of
ItemPool ==
    { [iccid |-> IccidA, action |-> "DEACTIVATE"],
      [iccid |-> IccidBLuhn, action |-> "Deactivate"],
      [iccid |-> IccidA, action |-> "ACTIVATE"],
      [iccid |-> IccidOut, action |-> "DEACTIVATE"],
      [iccid |-> IccidShort, action |-> "DEACTIVATE"],
      [iccid |-> IccidAlpha, action |-> "DEACTIVATE"],
      [iccid |-> None, action |-> "DEACTIVATE"] }

SeqsUpTo(S, n) == UNION { [1..m -> S] : m \in 0..n }

\* a file is well-formed XML with items, or malformed XML
XmlFiles ==
    { [wellformed |-> TRUE, items |-> its] : its \in SeqsUpTo(ItemPool, MaxItems) }
        \cup { [wellformed |-> FALSE, items |-> <<>>] }

Absent == "<absent>"

\* JSON documents the remote system answers with.  shape "list" is a JSON
\* array; statusCodeData is "dict", "null" (JSON null, unused by Bodies) or
\* Absent.
Body(status, scd, subj, reason, msg) ==
    [shape |-> "dict", status |-> status, statusCodeData |-> scd,
     subjectCode |-> subj, reasonCode |-> reason, message |-> msg]

BodyList == [Body(Absent, Absent, Absent, Absent, Absent) EXCEPT !.shape = "list"]
BodyEmpty == Body(Absent, Absent, Absent, Absent, Absent)

Bodies ==
    { Body("Executed-Success", Absent, Absent, Absent, Absent),
      Body("Failed", "dict", "8.2.1", "3.3", "Expire Order not Exist"),
      Body("Failed", "dict", "8.2.1", "3.9", "Order locked"),
      Body("Failed", Absent, Absent, Absent, Absent),
      Body("Expired", Absent, Absent, Absent, Absent),
      BodyEmpty,
      BodyList }

\* what one call of _make_request does: return a body, or raise
TransportOutcomes ==
    { [raised |-> FALSE, body |-> b, error |-> ""] : b \in Bodies }
        \cup { [raised |-> TRUE, body |-> BodyEmpty, error |-> "API request failed: timeout"] }

(***************************************************************************)
(* core/xml_processor.py : XMLProcessor.parse_file                         *)
(***************************************************************************)
\* the validation of one item; src is the item's position in the file
\* (kept to relate outcomes to items)
ParseItem(item, src) ==
    IF item.iccid = None \/ Strip(item.iccid) = <<>>
    THEN [valid |-> FALSE, src |-> src, iccid |-> item.iccid,
          action |-> item.action, reason |-> "Missing ICCID"]
    ELSE LET iccid_clean == Printable(Strip(item.iccid)) IN
         IF ~IsDigit(iccid_clean)
         THEN [valid |-> FALSE, src |-> src, iccid |-> iccid_clean,
               action |-> item.action, reason |-> "ICCID not numeric"]
         ELSE IF Len(iccid_clean) < MinIccidLen \/ Len(iccid_clean) > MaxIccidLen
         THEN [valid |-> FALSE, src |-> src, iccid |-> iccid_clean,
               action |-> item.action, reason |-> "ICCID length out of expected range"]
         ELSE [valid |-> TRUE, src |-> src, iccid |-> iccid_clean,
               action |-> item.action, reason |-> ""]

IsValidParse(p) == p.valid
IsInvalidParse(p) == ~p.valid

\* raises XMLValidationError for malformed XML and for a file without items
parse_file(xml) ==
    IF ~xml.wellformed \/ xml.items = <<>>
    THEN [raised |-> TRUE, records |-> <<>>, invalids |-> <<>>]
    ELSE LET parsed == [n \in 1..Len(xml.items) |-> ParseItem(xml.items[n], n)]
         IN  [raised |-> FALSE,
              records |-> SelectSeq(parsed, IsValidParse),
              invalids |-> SelectSeq(parsed, IsInvalidParse)]

(***************************************************************************)
(* main.py : ESIMDeactivationOrchestrator, the pure parts                  *)
(***************************************************************************)
\* process_xml_file losing the invalid records
process_xml_file_DropInvalids(xml) ==
    LET r == parse_file(xml)
    IN  IF r.raised THEN [records |-> <<>>, invalids |-> <<>>]
        ELSE [records |-> r.records, invalids |-> <<>>]

\* _process_xml_file: a parse error is logged and becomes ([], [])
process_xml_file(xml) ==
    LET r == parse_file(xml)
    IN  IF r.raised THEN [records |-> <<>>, invalids |-> <<>>]
        ELSE [records |-> r.records, invalids |-> r.invalids]

\* IsDeactivation without the eSIM range check
IsDeactivation_NoRangeCheck(record) ==
    /\ record.action # "None"
    /\ record.action # ""
    /\ Upper(record.action) = "DEACTIVATE"

IsDeactivation(record) ==
    /\ record.action # "None"
    /\ record.action # ""
    /\ Upper(record.action) = "DEACTIVATE"
    /\ is_esim(EsimStart, EsimEnd, record.iccid)

filter_deactivations(records) == SelectSeq(records, IsDeactivation)

\* Deduplicate keeping every record
RECURSIVE Deduplicate_KeepAll(_, _)
Deduplicate_KeepAll(records, kept) ==
    IF records = <<>> THEN kept
    ELSE Deduplicate_KeepAll(Tail(records), Append(kept, Head(records)))

\* _process_file, "Remove duplicates": the first record of each ICCID, in order
RECURSIVE Deduplicate(_, _)
Deduplicate(records, kept) ==
    IF records = <<>> THEN kept
    ELSE IF \E n \in 1..Len(kept) : kept[n].iccid = Head(records).iccid
         THEN Deduplicate(Tail(records), kept)
         ELSE Deduplicate(Tail(records), Append(kept, Head(records)))

\* ProcessingResult(status="INVALID", ...) for an invalid item; the raw
\* fields are keyed by the XML tag "ICCID", so .get('iccid') finds nothing
InvalidResult(inv) ==
    [src |-> inv.src, iccid |-> UNKNOWN, status |-> "INVALID",
     success_reason |-> "None", error_message |-> inv.reason,
     retry_attempts |-> 0]

InvalidResults(invalids) == [n \in 1..Len(invalids) |-> InvalidResult(invalids[n])]

\* ProcessingResult(status="PENDING", retry_attempts=0) of _process_batch
PendingResult(record) ==
    [src |-> record.src, iccid |-> record.iccid, status |-> "PENDING",
     success_reason |-> "None", error_message |-> "None",
     retry_attempts |-> 0]

IsSuccessOrFailed(r) == r.status \in {"SUCCESS", "FAILED"}
IsSuccess(r) == r.status = "SUCCESS"

\* FileVerdict requiring the rate to exceed the threshold
FileVerdict_Strict(results) ==
    LET total_esim == Len(SelectSeq(results, IsSuccessOrFailed))
        successful == Len(SelectSeq(results, IsSuccess))
    IN  IF total_esim > 0
        THEN successful * success_threshold_den > success_threshold_num * total_esim
        ELSE TRUE

\* _process_file, "Calculate success rate": success_rate >= success_threshold
\* with success_rate = successful / total_esim, and True when total_esim = 0
FileVerdict(results) ==
    LET total_esim == Len(SelectSeq(results, IsSuccessOrFailed))
        successful == Len(SelectSeq(results, IsSuccess))
    IN  IF total_esim > 0
        THEN successful * success_threshold_den >= success_threshold_num * total_esim
        ELSE TRUE

\* Python's min
Min(a, b) == IF a < b THEN a ELSE b

(***************************************************************************)
(* State                                                                   *)
(***************************************************************************)
VARIABLES
    xml,            \* the downloaded file _process_file works on
    max_attempts,   \* retry_policy.max_attempts (orchestrator and client load the same configuration)
    batch_size,     \* config.batch_size
    pc,             \* position of _process_file / _process_batch / expire_order
    file_results,   \* _process_file: file_results
    deactivations,  \* _process_file: deactivations after deduplication
    i,              \* _process_file: start index of the current batch
    results,        \* _process_batch: results
    k,              \* _process_batch: 1-based position of record in the batch
    result,         \* _process_batch: the ProcessingResult being filled
    attempt,        \* _process_batch: loop variable of the retry loop
    attempts,       \* expire_order: attempts
    ret,            \* value returned by the last expire_order call
    verdict,        \* boolean returned by _process_file (meaningful at pc = "returned")
    calls,          \* observation: _make_request calls made for the current record
    expire_calls,   \* observation: expire_order calls made for the current record
    waits,          \* observation: time.sleep delays of _process_batch for the current record
    client_waits,   \* observation: time.sleep delays of the current expire_order call
    only_failed,    \* observation: every _make_request call for the current record returned a
                    \* "Failed" status with a code other than 8.2.1/3.3 (and at least one was made)
    only_raised,    \* observation: every _make_request call for the current record raised
                    \* (and at least one was made)
    after_final,    \* observation: transport calls made for a record after its status became final
    remote_iccids,  \* observation: ICCIDs passed to expire_order for this file
    rate_waits,     \* observation: rate-limit sleeps of _process_file
    batch_sizes,    \* observation: len(batch) of each _process_batch call for this file
    remote_files,   \* run: the files _discover_files listed, each with what downloading it gives
    file_idx,       \* run: 1-based position of remote_file in remote_files (0 before the loop)
    files_processed,\* run: self.files_processed (positions in remote_files)
    files_failed,   \* run: self.files_failed (positions in remote_files)
    all_results,    \* run: self.all_results
    exit_code,      \* run: exit_code
    done_folder,    \* observation: files the FTP server holds in the done folder
    file_verdicts,  \* observation: the verdict _process_file returned for each file so far
    fault,          \* observation: where an error that reached the except clause of
                    \* _process_file arose ("none" when none did)
    lock_file,      \* ProcessLock: PID written in the lock file, 0 when the file does not exist
    procs,          \* ProcessLock: per process, its position, self.locked and the PID it read
    uid,            \* the user each process runs as
    call,           \* a call of a function of business_rules.py: arguments and returned value
    client,         \* ESIMRSPClient: arguments and locals of one expire_order call and of its _make_request calls
    sent            \* the network requests made by requests.request, in order

vars == <<xml, max_attempts, batch_size, pc, file_results, deactivations, i,
          results, k, result, attempt, attempts, ret, verdict, calls,
          expire_calls, waits, client_waits, only_failed, only_raised,
          after_final, remote_iccids, rate_waits, batch_sizes, remote_files,
          file_idx, files_processed, files_failed, all_results, exit_code,
          done_folder, file_verdicts, fault, lock_file, procs, uid, call, client,
          sent>>

\* the state of run() around _process_file
run_vars == <<remote_files, file_idx, files_processed, files_failed, all_results,
              exit_code, done_folder, file_verdicts, fault>>

\* the state of the ProcessLock instances and of the lock file
lock_vars == <<lock_file, procs, uid>>

\* the state of the ESIMRSPClient called on its own
client_vars == <<client, sent>>

\* what the steps of _process_file and _process_batch leave alone
other_vars == <<run_vars, lock_vars, call, client_vars>>

\* the state of _process_file, _process_batch and expire_order
file_vars == <<xml, max_attempts, batch_size, pc, file_results, deactivations, i,
               results, k, result, attempt, attempts, ret, verdict, calls,
               expire_calls, waits, client_waits, only_failed, only_raised,
               after_final, remote_iccids, rate_waits, batch_sizes>>

\* file_vars without pc
file_vars_but_pc == <<xml, max_attempts, batch_size, file_results, deactivations, i,
                      results, k, result, attempt, attempts, ret, verdict, calls,
                      expire_calls, waits, client_waits, only_failed, only_raised,
                      after_final, remote_iccids, rate_waits, batch_sizes>>

\* run() is not executing: _process_file is looked at on its own
RunIdle ==
    /\ remote_files = <<>>
    /\ file_idx = 0
    /\ files_processed = <<>>
    /\ files_failed = <<>>
    /\ all_results = <<>>
    /\ exit_code = 0
    /\ done_folder = {}
    /\ file_verdicts = <<>>
    /\ fault = "none"

\* no process uses the lock
LockIdle ==
    /\ lock_file = 0
    /\ procs = <<>>
    /\ uid = <<>>

\* no function of business_rules.py is being called on its own
NoCall == [fn |-> "none"]

\* the ESIMRSPClient is not being called on its own
ClientIdle ==
    /\ client = [pc |-> "none"]
    /\ sent = <<>>

NoRet == [status |-> "none", attempts |-> 0, has_response |-> FALSE,
          response |-> BodyEmpty, error |-> ""]

NoResult == [src |-> 0, iccid |-> UNKNOWN, status |-> "NONE",
             success_reason |-> "None", error_message |-> "None",
             retry_attempts |-> 0]

\* Batch taking every record that is left
Batch_Whole == SubSeq(deactivations, i + 1, Len(deactivations))

\* deactivations[i:i + batch_size]
Batch == SubSeq(deactivations, i + 1, Min(i + batch_size, Len(deactivations)))

Init ==
    /\ xml \in XmlFiles
    /\ max_attempts \in 1..MaxAttemptsCfg
    /\ batch_size \in 1..MaxBatchSize
    /\ pc = "start"
    /\ file_results = <<>>
    /\ deactivations = <<>>
    /\ i = 0
    /\ results = <<>>
    /\ k = 0
    /\ result = NoResult
    /\ attempt = 0
    /\ attempts = 0
    /\ ret = NoRet
    /\ verdict = FALSE
    /\ calls = 0
    /\ expire_calls = 0
    /\ waits = <<>>
    /\ client_waits = <<>>
    /\ only_failed = FALSE
    /\ only_raised = FALSE
    /\ after_final = 0
    /\ remote_iccids = {}
    /\ rate_waits = 0
    /\ batch_sizes = <<>>
    /\ RunIdle
    /\ LockIdle
    /\ call = NoCall
    /\ ClientIdle

(***************************************************************************)
(* core/esim_rsp_client.py : ESIMRSPClient.expire_order, one iteration of  *)
(* its while loop.  n is attempts after "attempts += 1", o is what the     *)
(* _make_request call did.                                                 *)
(***************************************************************************)
\* expire_order_iteration giving up at the first exception
expire_order_iteration_NoRetry(o, n, policy_max) ==
    IF ~o.raised
    THEN [returns |-> TRUE, sleeps |-> <<>>,
          ret |-> [status |-> "success", attempts |-> n, has_response |-> TRUE,
                   response |-> o.body, error |-> ""]]
    ELSE [returns |-> TRUE, sleeps |-> <<>>,
          ret |-> [status |-> "failed", attempts |-> n, has_response |-> FALSE,
                   response |-> BodyEmpty, error |-> o.error]]

expire_order_iteration(o, n, policy_max) ==
    IF ~o.raised
    THEN [returns |-> TRUE, sleeps |-> <<>>,
          ret |-> [status |-> "success", attempts |-> n, has_response |-> TRUE,
                   response |-> o.body, error |-> ""]]
    ELSE IF can_retry(policy_max, n)
    THEN [returns |-> FALSE, sleeps |-> <<next_delay(n)>>, ret |-> NoRet]
    ELSE [returns |-> TRUE, sleeps |-> <<>>,
          ret |-> [status |-> "failed", attempts |-> n, has_response |-> FALSE,
                   response |-> BodyEmpty, error |-> o.error]]

(***************************************************************************)
(* main.py : _process_batch, the body of the retry loop after expire_order *)
(* returned r on iteration att.  The value tells the new ProcessingResult, *)
(* whether the loop goes on to the next attempt (after sleeping sleeps),   *)
(* and whether an exception leaves the per-record try statement.           *)
(***************************************************************************)
Terminal(res, status, reason, message) ==
    [result |-> [res EXCEPT !.status = status, !.success_reason = reason,
                            !.error_message = message],
     continue |-> FALSE, sleeps |-> <<>>, escaped |-> FALSE]

\* CaughtUnexpected without the "except Exception" clause: the error leaves
\* the per-record step
CaughtUnexpected_Escapes(res) ==
    [result |-> res, continue |-> FALSE, sleeps |-> <<>>, escaped |-> TRUE]

\* an AttributeError raised inside the loop, caught by "except Exception"
CaughtUnexpected(res) ==
    Terminal(res, "FAILED", res.success_reason,
             "Unexpected error: 'NoneType' object has no attribute 'get'")

\* BusinessFailure giving up one attempt early
BusinessFailure_OffByOne(res, att, policy_max, message) ==
    IF att + 1 >= policy_max
    THEN Terminal(res, "FAILED", res.success_reason, message)
    ELSE [result |-> [res EXCEPT !.error_message = message],
          continue |-> TRUE, sleeps |-> <<next_delay(att)>>, escaped |-> FALSE]

\* "Other business errors - retry": FAILED on the last attempt, otherwise
\* the message is recorded and the loop sleeps next_delay(att)
BusinessFailure(res, att, policy_max, message) ==
    IF att >= policy_max
    THEN Terminal(res, "FAILED", res.success_reason, message)
    ELSE [result |-> [res EXCEPT !.error_message = message],
          continue |-> TRUE, sleeps |-> <<next_delay(att)>>, escaped |-> FALSE]

\* Deactivated with the success reason of the other success branch
Deactivated_WrongReason(res) ==
    Terminal(res, "SUCCESS", "ALREADY_EXPIRED", res.error_message)

\* status == "Executed-Success"
Deactivated(res) == Terminal(res, "SUCCESS", "DEACTIVATED", res.error_message)

\* IsExpireOrderNotExist comparing against a code joined by the wrong separator
IsExpireOrderNotExist_WrongSeparator(error_code) == error_code = "8.2.1-3.3"

\* error_code == "8.2.1/3.3" (Expire Order not Exist)
IsExpireOrderNotExist(error_code) == error_code = "8.2.1/3.3"

\* AlreadyExpired that sets no success reason
AlreadyExpired_NoReason(res) ==
    Terminal(res, "SUCCESS", res.success_reason, res.error_message)

\* error_code == "8.2.1/3.3": SUCCESS with reason ALREADY_EXPIRED
AlreadyExpired(res) == Terminal(res, "SUCCESS", "ALREADY_EXPIRED", res.error_message)

\* UnexpectedStatus handled like a retryable business error
UnexpectedStatus_Retried(res, att, policy_max, status) ==
    BusinessFailure(res, att, policy_max,
                    "Unexpected API status: " \o (IF status = Absent THEN "None" ELSE status))

\* "Status is None or unexpected value"
UnexpectedStatus(res, att, policy_max, status) ==
    Terminal(res, "FAILED", res.success_reason,
             "Unexpected API status: " \o (IF status = Absent THEN "None" ELSE status))

\* f"[{error_code}] {error_msg}" of a "Failed" response
BusinessMessage(response) ==
    LET subject_code == IF response.subjectCode = Absent THEN "" ELSE response.subjectCode
        reason_code == IF response.reasonCode = Absent THEN "" ELSE response.reasonCode
        error_code == subject_code \o "/" \o reason_code
        error_msg == IF response.message = Absent THEN "Unknown error"
                     ELSE response.message
    IN  [error_code |-> error_code,
         text |-> "[" \o error_code \o "] " \o error_msg]

\* interpret_response without "result.retry_attempts = attempt"
interpret_response_NoAttemptCount(res0, r, att, policy_max) ==
    LET res == res0
        response == IF r.has_response THEN r.response ELSE BodyEmpty
        status == response.status
    IN  IF response.shape # "dict" THEN CaughtUnexpected(res)
        ELSE IF status = "Executed-Success" THEN Deactivated(res)
        ELSE IF status = "Failed"
        THEN IF response.statusCodeData = "null" THEN CaughtUnexpected(res)
             ELSE IF IsExpireOrderNotExist(BusinessMessage(response).error_code)
                  THEN AlreadyExpired(res)
                  ELSE BusinessFailure(res, att, policy_max,
                                       BusinessMessage(response).text)
        ELSE UnexpectedStatus(res, att, policy_max, status)

\* the body of the retry loop of _process_batch after expire_order returned r
interpret_response(res0, r, att, policy_max) ==
    LET res == [res0 EXCEPT !.retry_attempts = att]
        response == IF r.has_response THEN r.response ELSE BodyEmpty
        status == response.status
    IN  IF response.shape # "dict" THEN CaughtUnexpected(res)
        ELSE IF status = "Executed-Success" THEN Deactivated(res)
        ELSE IF status = "Failed"
        THEN IF response.statusCodeData = "null" THEN CaughtUnexpected(res)
             ELSE IF IsExpireOrderNotExist(BusinessMessage(response).error_code)
                  THEN AlreadyExpired(res)
                  ELSE BusinessFailure(res, att, policy_max,
                                       BusinessMessage(response).text)
        ELSE UnexpectedStatus(res, att, policy_max, status)

\* a transport outcome that is a response with status "Failed" and a
\* composite code other than 8.2.1/3.3
IsBusinessFailure(o) ==
    /\ ~o.raised
    /\ o.body.shape = "dict"
    /\ o.body.status = "Failed"
    /\ o.body.statusCodeData # "null"
    /\ ~(o.body.subjectCode = "8.2.1" /\ o.body.reasonCode = "3.3")

(***************************************************************************)
(* Actions                                                                 *)
(***************************************************************************)
\* ParseAndFilter answering false when the file holds no eligible record
ParseAndFilter_EarlyFalse ==
    /\ pc = "start"
    /\ LET px == process_xml_file(xml)
           found == filter_deactivations(px.records)
       IN  /\ file_results' = InvalidResults(px.invalids)
           /\ IF found = <<>>
              THEN /\ verdict' = FALSE
                   /\ pc' = "returned"
                   /\ UNCHANGED deactivations
              ELSE /\ deactivations' = Deduplicate(found, <<>>)
                   /\ pc' = "batch"
                   /\ UNCHANGED verdict
    /\ i' = 0
    /\ UNCHANGED other_vars
    /\ UNCHANGED batch_sizes
    /\ UNCHANGED <<xml, max_attempts, batch_size, results, k, result, attempt,
                   attempts, ret, calls, expire_calls, waits, client_waits,
                   only_failed, only_raised, after_final, remote_iccids, rate_waits>>

\* _process_file up to the batch loop: parse, INVALID outcomes, filter,
\* early return, deduplication
ParseAndFilter ==
    /\ pc = "start"
    /\ LET px == process_xml_file(xml)
           found == filter_deactivations(px.records)
       IN  /\ file_results' = InvalidResults(px.invalids)
           /\ IF found = <<>>
              THEN /\ verdict' = TRUE
                   /\ pc' = "returned"
                   /\ UNCHANGED deactivations
              ELSE /\ deactivations' = Deduplicate(found, <<>>)
                   /\ pc' = "batch"
                   /\ UNCHANGED verdict
    /\ i' = 0
    /\ UNCHANGED other_vars
    /\ UNCHANGED batch_sizes
    /\ UNCHANGED <<xml, max_attempts, batch_size, results, k, result, attempt,
                   attempts, ret, calls, expire_calls, waits, client_waits,
                   only_failed, only_raised, after_final, remote_iccids, rate_waits>>

\* _process_file takes the next batch and calls _process_batch
BeginBatch ==
    /\ pc = "batch"
    /\ batch_sizes' = Append(batch_sizes, Len(Batch))
    /\ results' = <<>>
    /\ k' = 1
    /\ pc' = "record"
    /\ UNCHANGED other_vars
    /\ UNCHANGED <<xml, max_attempts, batch_size, file_results, deactivations, i,
                   result, attempt, attempts, ret, verdict, calls, expire_calls,
                   waits, client_waits, only_failed,
                   only_raised, after_final, remote_iccids,
                   rate_waits>>

\* _process_batch: a new ProcessingResult, the retry loop starts
BeginRecord ==
    /\ pc = "record"
    /\ result' = PendingResult(Batch[k])
    /\ attempt' = 1
    /\ pc' = IF max_attempts >= 1 THEN "expire" ELSE "finish"
    /\ ret' = NoRet
    /\ attempts' = 0
    /\ calls' = 0
    /\ expire_calls' = 0
    /\ waits' = <<>>
    /\ client_waits' = <<>>
    /\ only_failed' = FALSE
    /\ only_raised' = FALSE
    /\ UNCHANGED other_vars
    /\ UNCHANGED batch_sizes
    /\ UNCHANGED <<xml, max_attempts, batch_size, file_results, deactivations, i,
                   results, k, verdict, after_final, remote_iccids, rate_waits>>

\* _process_batch calls rsp_client.expire_order(iccid=record.iccid)
EnterExpireOrder ==
    /\ pc = "expire"
    /\ attempts' = 0
    /\ client_waits' = <<>>
    /\ expire_calls' = expire_calls + 1
    /\ remote_iccids' = remote_iccids \cup {Batch[k].iccid}
    /\ after_final' = IF result.status \in {"SUCCESS", "FAILED"}
                      THEN after_final + 1 ELSE after_final
    /\ pc' = "request"
    /\ UNCHANGED other_vars
    /\ UNCHANGED batch_sizes
    /\ UNCHANGED <<xml, max_attempts, batch_size, file_results, deactivations, i,
                   results, k, result, attempt, ret, verdict, calls, waits,
                   only_failed, only_raised, rate_waits>>

\* expire_order: one _make_request call and what follows it in the loop
MakeRequest(o) ==
    /\ pc = "request"
    /\ LET step == expire_order_iteration(o, attempts + 1, max_attempts)
       IN  /\ attempts' = attempts + 1
           /\ client_waits' = client_waits \o step.sleeps
           /\ ret' = step.ret
           /\ pc' = IF step.returns THEN "response" ELSE "request"
    /\ calls' = calls + 1
    /\ only_failed' = (IsBusinessFailure(o) /\ (calls = 0 \/ only_failed))
    /\ only_raised' = (o.raised /\ (calls = 0 \/ only_raised))
    /\ UNCHANGED other_vars
    /\ UNCHANGED batch_sizes
    /\ UNCHANGED <<xml, max_attempts, batch_size, file_results, deactivations, i,
                   results, k, result, attempt, verdict, expire_calls, waits,
                   after_final, remote_iccids, rate_waits>>

\* HandleResponse that goes to the next attempt without sleeping
HandleResponse_NoSleep ==
    /\ pc = "response"
    /\ LET step == interpret_response(result, ret, attempt, max_attempts)
       IN  /\ result' = step.result
           /\ waits' = waits
           /\ attempt' = IF step.continue THEN attempt + 1 ELSE attempt
           /\ pc' = IF step.escaped THEN "returned"
                    ELSE IF step.continue THEN "expire" ELSE "finish"
           /\ verdict' = IF step.escaped THEN FALSE ELSE verdict
    /\ UNCHANGED other_vars
    /\ UNCHANGED batch_sizes
    /\ UNCHANGED <<xml, max_attempts, batch_size, file_results, deactivations, i,
                   results, k, attempts, ret, calls, expire_calls, client_waits,
                   only_failed, only_raised, after_final, remote_iccids, rate_waits>>

\* _process_batch: the rest of the loop body; an exception that left
\* _process_batch would end _process_file in its except clause
HandleResponse ==
    /\ pc = "response"
    /\ LET step == interpret_response(result, ret, attempt, max_attempts)
       IN  /\ result' = step.result
           /\ waits' = waits \o step.sleeps
           /\ attempt' = IF step.continue THEN attempt + 1 ELSE attempt
           /\ pc' = IF step.escaped THEN "returned"
                    ELSE IF step.continue THEN "expire" ELSE "finish"
           /\ verdict' = IF step.escaped THEN FALSE ELSE verdict
    /\ UNCHANGED other_vars
    /\ UNCHANGED batch_sizes
    /\ UNCHANGED <<xml, max_attempts, batch_size, file_results, deactivations, i,
                   results, k, attempts, ret, calls, expire_calls, client_waits,
                   only_failed, only_raised, after_final, remote_iccids, rate_waits>>

\* _process_batch appends the result; after the last record of the batch it
\* returns and _process_file extends file_results
FinishRecord ==
    /\ pc = "finish"
    /\ results' = Append(results, result)
    /\ IF k < Len(Batch)
       THEN /\ k' = k + 1
            /\ pc' = "record"
            /\ UNCHANGED file_results
       ELSE /\ file_results' = file_results \o Append(results, result)
            /\ pc' = IF i + batch_size < Len(deactivations) THEN "ratelimit"
                     ELSE "verdict"
            /\ UNCHANGED k
    /\ UNCHANGED other_vars
    /\ UNCHANGED batch_sizes
    /\ UNCHANGED <<xml, max_attempts, batch_size, deactivations, i, result,
                   attempt, attempts, ret, verdict, calls, expire_calls, waits,
                   client_waits, only_failed,
                   only_raised, after_final, remote_iccids, rate_waits>>

\* _process_file: time.sleep(rate_limit_sleep) between two batches
RateLimitSleep ==
    /\ pc = "ratelimit"
    /\ rate_waits' = rate_waits + 1
    /\ i' = i + batch_size
    /\ pc' = "batch"
    /\ UNCHANGED other_vars
    /\ UNCHANGED batch_sizes
    /\ UNCHANGED <<xml, max_attempts, batch_size, file_results, deactivations,
                   results, k, result, attempt, attempts, ret, verdict, calls,
                   expire_calls, waits, client_waits, only_failed,
                   only_raised, after_final,
                   remote_iccids>>

\* _process_file: the success rate against the threshold
ComputeVerdict ==
    /\ pc = "verdict"
    /\ verdict' = FileVerdict(file_results)
    /\ pc' = "returned"
    /\ UNCHANGED other_vars
    /\ UNCHANGED batch_sizes
    /\ UNCHANGED <<xml, max_attempts, batch_size, file_results, deactivations, i,
                   results, k, result, attempt, attempts, ret, calls,
                   expire_calls, waits, client_waits, only_failed,
                   only_raised, after_final,
                   remote_iccids, rate_waits>>

Next ==
    \/ ParseAndFilter
    \/ BeginBatch
    \/ BeginRecord
    \/ EnterExpireOrder
    \/ \E o \in TransportOutcomes : MakeRequest(o)
    \/ HandleResponse
    \/ FinishRecord
    \/ RateLimitSleep
    \/ ComputeVerdict

Spec == Init /\ [][Next]_vars

(***************************************************************************)
(* The verdict computation on its own: _process_file at "Calculate success *)
(* rate" with file_results holding nI INVALID outcomes followed by nS      *)
(* SUCCESS and nF FAILED outcomes of the batches.                          *)
(***************************************************************************)
\* the n-th ICCID of the eSIM range
NumberedIccid(n) ==
    [EsimStart EXCEPT ![19] = (n \div 10) % 10, ![20] = n % 10]

VerdictOutcome(n, status) ==
    [src |-> n,
     iccid |-> IF status = "INVALID" THEN UNKNOWN ELSE NumberedIccid(n),
     status |-> status,
     success_reason |-> IF status = "SUCCESS" THEN "DEACTIVATED" ELSE "None",
     error_message |-> CASE status = "SUCCESS" -> "None"
                         [] status = "FAILED" -> "[8.2.1/3.9] Order locked"
                         [] OTHER -> "ICCID not numeric",
     retry_attempts |-> IF status = "INVALID" THEN 0 ELSE 1]

VerdictResults(nS, nF, nI, failedFirst) ==
    [n \in 1..(nI + nS + nF) |->
        IF n <= nI THEN VerdictOutcome(n, "INVALID")
        ELSE IF failedFirst
             THEN (IF n <= nI + nF THEN VerdictOutcome(n, "FAILED")
                   ELSE VerdictOutcome(n, "SUCCESS"))
             ELSE (IF n <= nI + nS THEN VerdictOutcome(n, "SUCCESS")
                   ELSE VerdictOutcome(n, "FAILED"))]

InitVerdict ==
    /\ xml = [wellformed |-> TRUE, items |-> <<>>]
    /\ max_attempts = 1
    /\ batch_size = 1
    /\ pc = "verdict"
    /\ \E nS \in 0..MaxOutcomes, nF \in 0..MaxOutcomes, nI \in 0..MaxInvalid,
          failedFirst \in BOOLEAN :
            /\ nS + nF <= MaxOutcomes
            /\ file_results = VerdictResults(nS, nF, nI, failedFirst)
    /\ deactivations = <<>>
    /\ i = 0
    /\ results = <<>>
    /\ k = 0
    /\ result = NoResult
    /\ attempt = 0
    /\ attempts = 0
    /\ ret = NoRet
    /\ verdict = FALSE
    /\ calls = 0
    /\ expire_calls = 0
    /\ waits = <<>>
    /\ client_waits = <<>>
    /\ only_failed = FALSE
    /\ only_raised = FALSE
    /\ after_final = 0
    /\ remote_iccids = {}
    /\ rate_waits = 0
    /\ batch_sizes = <<>>
    /\ RunIdle
    /\ LockIdle
    /\ call = NoCall
    /\ ClientIdle

NextVerdict == ComputeVerdict

SpecVerdict == InitVerdict /\ [][NextVerdict]_vars

(***************************************************************************)
(* Properties                                                              *)
(***************************************************************************)
\* the JSON document in the last value returned by expire_order ({} when the
\* value has no "response" key)
RetBody == IF ret.has_response THEN ret.response ELSE BodyEmpty

RetIsFailedWithCodes ==
    /\ ret.has_response
    /\ RetBody.shape = "dict"
    /\ RetBody.status = "Failed"
    /\ RetBody.statusCodeData # "null"

RetIsSentinel ==
    /\ RetIsFailedWithCodes
    /\ RetBody.subjectCode = "8.2.1"
    /\ RetBody.reasonCode = "3.3"

RetIsExecutedSuccess ==
    /\ ret.has_response
    /\ RetBody.shape = "dict"
    /\ RetBody.status = "Executed-Success"

\* expire_order returned and no recognised execution status can be read
RetStatusUnrecognized ==
    /\ ret.status # "none"
    /\ RetBody.shape = "dict"
    /\ RetBody.status \notin {"Executed-Success", "Failed"}

\* the record is between two attempts or inside expire_order
InExpire == pc \in {"expire", "request"}

\* C1: a "Failed" response with code 8.2.1/3.3 ends the record as SUCCESS with
\* success reason ALREADY_EXPIRED on the attempt that received it, no further
\* expire_order call is made for the record, and the attempts recorded are
\* the attempts made (1 when it is the first attempt).
C1_SentinelIsAlreadyExpired ==
    RetIsSentinel =>
        /\ ~InExpire
        /\ after_final = 0
        /\ pc = "finish" =>
            /\ result.status = "SUCCESS"
            /\ result.success_reason = "ALREADY_EXPIRED"
            /\ result.retry_attempts = expire_calls
            /\ (expire_calls = 1 => result.retry_attempts = 1)

C1_Witness ==
    /\ pc = "finish"
    /\ RetIsSentinel
    /\ expire_calls = 1
    /\ result.status = "SUCCESS"
    /\ result.retry_attempts = 1

\* C2: when every response for a record is a "Failed" status with a code
\* other than 8.2.1/3.3, the outcome is FAILED, attempts used equals
\* max_attempts, expire_order was called exactly max_attempts times, and the
\* error message is the one of the last response.
C2_AllBusinessFailuresEndFailed ==
    (pc = "finish" /\ only_failed) =>
        /\ result.status = "FAILED"
        /\ result.retry_attempts = max_attempts
        /\ expire_calls = max_attempts
        /\ calls = max_attempts
        /\ result.error_message = BusinessMessage(RetBody).text

C2_Witness ==
    /\ pc = "finish"
    /\ only_failed
    /\ max_attempts = 3
    /\ result.status = "FAILED"
    /\ result.retry_attempts = 3
    /\ expire_calls = 3
    /\ waits = <<5, 10>>
    /\ result.error_message = "[/] Unknown error"

\* C3 (as claimed): when the transport raises on every call and
\* max_attempts = 3, the record ends FAILED with 3 attempts used and exactly
\* 3 transport calls.
C3_AlwaysRaisingTransport ==
    (pc = "finish" /\ only_raised /\ max_attempts = 3) =>
        /\ result.status = "FAILED"
        /\ result.retry_attempts = 3
        /\ calls = 3

\* C4: when the execution status read from the value expire_order returned
\* is absent or neither "Executed-Success" nor "Failed", the record ends
\* FAILED on that attempt: no sleep and no further expire_order call follow,
\* also when the attempt is not the last one allowed.
C4_UnrecognizedStatusIsTerminal ==
    RetStatusUnrecognized =>
        /\ ~InExpire
        /\ after_final = 0
        /\ pc = "finish" =>
            /\ result.status = "FAILED"
            /\ result.retry_attempts = expire_calls
            /\ Len(waits) = expire_calls - 1

C4_Witness ==
    /\ pc = "finish"
    /\ RetStatusUnrecognized
    /\ ret.has_response
    /\ can_retry(max_attempts, attempt)
    /\ result.status = "FAILED"
    /\ result.error_message = "Unexpected API status: Expired"

\* C5: a response with status "Executed-Success" on attempt k ends the record
\* as SUCCESS with success reason DEACTIVATED and k attempts used; no further
\* attempt and no sleep follow.
C5_ExecutedSuccessIsDeactivated ==
    RetIsExecutedSuccess =>
        /\ ~InExpire
        /\ after_final = 0
        /\ pc = "finish" =>
            /\ result.status = "SUCCESS"
            /\ result.success_reason = "DEACTIVATED"
            /\ result.retry_attempts = attempt
            /\ expire_calls = attempt
            /\ Len(waits) = attempt - 1

C5_Witness ==
    /\ pc = "finish"
    /\ RetIsExecutedSuccess
    /\ attempt = 2
    /\ result.status = "SUCCESS"
    /\ result.retry_attempts = 2

\* C6 (as claimed): when the transport raises on attempt k, then if
\* can_retry(k) the next attempt follows a sleep of next_delay(k); otherwise
\* the outcome is FAILED and its error message is the transport exception's
\* message.
C6_TransportExceptionPolicy ==
    /\ (pc = "request" /\ attempts >= 1) =>
            /\ can_retry(max_attempts, attempts)
            /\ client_waits[attempts] = next_delay(attempts)
    /\ (pc = "finish" /\ ret.status = "failed") =>
            /\ result.status = "FAILED"
            /\ result.error_message \in {ret.error, "RSP Client Error: " \o ret.error}

IsBatchOutcome(r) == r.status # "INVALID"

\* the outcomes of file_results that _process_batch produced
BatchOutcomes == SelectSeq(file_results, IsBatchOutcome)

\* outs holds one outcome for each of the first Len(outs) records of recs,
\* in the same order
OneOutcomePerRecord(outs, recs) ==
    /\ Len(outs) <= Len(recs)
    /\ \A n \in 1..Len(outs) :
           /\ outs[n].src = recs[n].src
           /\ outs[n].iccid = recs[n].iccid

\* C7: _process_batch returns exactly one outcome per record of the batch, in
\* the order of the batch, whatever the remote system answers or raises: the
\* per-record step lets no exception out, so the records after a failing
\* one are processed too.
C7_OneOutcomePerRecordInOrder ==
    /\ pc \in {"record", "expire", "request", "response", "finish"} =>
            /\ Len(results) = k - 1
            /\ OneOutcomePerRecord(results, Batch)
    /\ pc = "ratelimit" =>
            /\ Len(BatchOutcomes) = i + batch_size
            /\ OneOutcomePerRecord(BatchOutcomes, deactivations)
    /\ (pc \in {"verdict", "returned"} /\ deactivations # <<>>) =>
            /\ Len(BatchOutcomes) = Len(deactivations)
            /\ OneOutcomePerRecord(BatchOutcomes, deactivations)

C7_Witness ==
    /\ pc = "returned"
    /\ Len(deactivations) = 2
    /\ Len(BatchOutcomes) = 2
    /\ BatchOutcomes[1].status = "FAILED"
    /\ BatchOutcomes[1].error_message
            = "Unexpected error: 'NoneType' object has no attribute 'get'"
    /\ BatchOutcomes[2].status = "SUCCESS"

\* the items of the file that parse to a record with ICCID ic
ItemsWithIccid(ic) ==
    { n \in 1..Len(xml.items) :
        /\ ParseItem(xml.items[n], n).valid
        /\ ParseItem(xml.items[n], n).iccid = ic }

\* expire_order has just been entered: the only moment remote_iccids grows
JustEnteredExpire == pc = "request" /\ attempts = 0

\* C8: expire_order is called for an ICCID only if the ICCID is the one of a
\* parsed record whose action is DEACTIVATE in any letter case and for which
\* is_esim holds; an ICCID outside the eSIM range or with another action is
\* never passed to the remote system.  (Each ICCID is examined in the state
\* that follows its first expire_order call; the file never changes.)
C8_OnlyEligibleReachRemote ==
    /\ remote_iccids \subseteq {IccidA, IccidBLuhn}
    /\ JustEnteredExpire =>
           \A ic \in remote_iccids :
               /\ is_esim(EsimStart, EsimEnd, ic)
               /\ \E n \in ItemsWithIccid(ic) :
                      xml.items[n].action \in {"DEACTIVATE", "Deactivate"}

C8_Witness ==
    /\ pc = "returned"
    /\ remote_iccids = {IccidBLuhn}
    /\ \E n \in 1..Len(xml.items) : xml.items[n].iccid = IccidOut

\* the identifier of an item is missing, non-numeric or of a length that
\* parse_file rejects
IsMalformedItem(item) ==
    \/ item.iccid = None
    \/ Strip(item.iccid) = <<>>
    \/ ~IsDigit(Printable(Strip(item.iccid)))
    \/ Len(Printable(Strip(item.iccid))) < MinIccidLen
    \/ Len(Printable(Strip(item.iccid))) > MaxIccidLen

\* the identifier of an item is well-formed and outside the eSIM range
IsOutOfRangeItem(item) ==
    /\ ~IsMalformedItem(item)
    /\ ~is_esim(EsimStart, EsimEnd, Printable(Strip(item.iccid)))

OutcomesOfItem(n) == { m \in 1..Len(file_results) : file_results[m].src = n }

NeverSent(item) ==
    \/ item.iccid = None
    \/ Printable(Strip(item.iccid)) \notin remote_iccids

CountStatus(status) ==
    Cardinality({ n \in 1..Len(file_results) : file_results[n].status = status })

\* C10: the verdict _process_file returns is true exactly when
\* successes / (successes + failures) >= success_threshold, counting the
\* SUCCESS and FAILED outcomes of the file only (INVALID outcomes count on
\* neither side); with threshold 0.95, 19 SUCCESS and 1 FAILED give true,
\* 18 SUCCESS and 2 FAILED give false.
C10_VerdictIsSuccessRateAgainstThreshold ==
    pc = "returned" =>
        LET successes == CountStatus("SUCCESS")
            failures == CountStatus("FAILED")
        IN  /\ successes + failures > 0 =>
                (verdict <=> 100 * successes >= 95 * (successes + failures))
            /\ (successes = 19 /\ failures = 1) => verdict
            /\ (successes = 18 /\ failures = 2) => ~verdict

C10_Witness ==
    /\ pc = "returned"
    /\ CountStatus("SUCCESS") = 19
    /\ CountStatus("FAILED") = 1
    /\ CountStatus("INVALID") = 2
    /\ verdict

C17_AlwaysRaisingExpireOrderFails ==
    /\ (pc = "request" /\ only_raised) => attempts < max_attempts
    /\ (pc = "response" /\ only_raised) =>
            /\ ret.status = "failed"
            /\ ~ret.has_response
            /\ ret.error = "API request failed: timeout"
            /\ ret.attempts = max_attempts
            /\ calls = max_attempts
            /\ Len(client_waits) = max_attempts - 1

C17_Witness ==
    /\ pc = "response"
    /\ only_raised
    /\ max_attempts = 3
    /\ ret.status = "failed"
    /\ ret.attempts = 3
    /\ calls = 3
    /\ client_waits = <<5, 10>>

\* C29 (as claimed): whatever the remote results, processing one record
\* invokes _make_request at most max_attempts times in total.
C29_TransportCallsAtMostMaxAttempts ==
    calls <= max_attempts

\* the waits next_delay(1), ..., next_delay(n)
BackoffWaits(n) == [m \in 1..n |-> next_delay(m)]

\* C30: for a record whose every response is a retryable business failure,
\* the waits of _process_batch are next_delay(1), ..., next_delay(max_attempts
\* - 1) in that order, one between two consecutive attempts and none after
\* the last attempt; with max_attempts = 3 they are 5 and 10.
C30_BackoffBetweenAttempts ==
    (only_failed /\ pc \in {"response", "expire", "request", "finish"}) =>
        /\ pc = "response" => waits = BackoffWaits(attempt - 1)
        /\ pc \in {"expire", "request"} => waits = BackoffWaits(attempt - 1)
        /\ pc = "finish" =>
              /\ attempt = max_attempts
              /\ waits = BackoffWaits(max_attempts - 1)
              /\ max_attempts = 3 => waits = <<5, 10>>
              /\ max_attempts = 1 => waits = <<>>

C30_Witness ==
    /\ pc = "finish"
    /\ only_failed
    /\ max_attempts = 3
    /\ attempt = 3
    /\ calls = 3
    /\ Len(waits) = 2
    /\ waits[1] = 5
    /\ waits[2] = 10
    /\ client_waits = <<>>

\* the outcomes _process_batch has produced so far: those of the batches it
\* returned, those of the current batch, and the one about to be appended
ProducedOutcomes ==
    {BatchOutcomes[n] : n \in 1..Len(BatchOutcomes)}
        \cup {results[n] : n \in 1..Len(results)}
        \cup (IF pc = "finish" THEN {result} ELSE {})

\* C33: for max_attempts >= 1, every outcome returned by _process_batch has
\* status SUCCESS or FAILED (never the initial PENDING), and it has a
\* successReason, which is DEACTIVATED or ALREADY_EXPIRED, exactly when its
\* status is SUCCESS.
C33_OutcomeIsSuccessOrFailed ==
    \A r \in ProducedOutcomes :
        /\ r.status \in {"SUCCESS", "FAILED"}
        /\ r.status = "SUCCESS" <=> r.success_reason # "None"
        /\ r.status = "SUCCESS" =>
               r.success_reason \in {"DEACTIVATED", "ALREADY_EXPIRED"}

\* a file whose two records ended SUCCESS with ALREADY_EXPIRED and FAILED
C33_Witness ==
    /\ pc = "returned"
    /\ Len(BatchOutcomes) = 2
    /\ BatchOutcomes[1].status = "SUCCESS"
    /\ BatchOutcomes[1].success_reason = "ALREADY_EXPIRED"
    /\ BatchOutcomes[2].status = "FAILED"
    /\ BatchOutcomes[2].success_reason = "None"

\* C34: for max_attempts >= 1, every outcome returned by _process_batch has
\* 1 <= attemptsUsed <= max_attempts, and attemptsUsed equals the number of
\* expire_order invocations made for that record.
C34_AttemptsUsedCountsExpireOrderCalls ==
    /\ \A r \in ProducedOutcomes :
           r.retry_attempts >= 1 /\ r.retry_attempts <= max_attempts
    /\ pc = "finish" => result.retry_attempts = expire_calls

\* a record that succeeded on the second of three attempts
C34_Witness ==
    /\ pc = "finish"
    /\ max_attempts = 3
    /\ result.status = "SUCCESS"
    /\ result.retry_attempts = 2
    /\ expire_calls = 2

\* C35: every outcome with status SUCCESS has a null errorMessage, including
\* when the success (DEACTIVATED or ALREADY_EXPIRED) is reached after one or
\* more earlier attempts of the same record ended in a retryable business
\* failure.
C35_SuccessHasNoErrorMessage ==
    \A r \in ProducedOutcomes :
        r.status = "SUCCESS" => r.error_message = "None"

(***************************************************************************)
(* The functions of core/business_rules.py called on their own: EsimRange  *)
(* and RetryPolicy are built and one method is called with the arguments   *)
(* held in call.                                                           *)
(***************************************************************************)
\* the locals of _process_file before it is called
FileIdle ==
    /\ file_results = <<>>
    /\ deactivations = <<>>
    /\ i = 0
    /\ results = <<>>
    /\ k = 0
    /\ result = NoResult
    /\ attempt = 0
    /\ attempts = 0
    /\ ret = NoRet
    /\ verdict = FALSE
    /\ calls = 0
    /\ expire_calls = 0
    /\ waits = <<>>
    /\ client_waits = <<>>
    /\ only_failed = FALSE
    /\ only_raised = FALSE
    /\ after_final = 0
    /\ remote_iccids = {}
    /\ rate_waits = 0
    /\ batch_sizes = <<>>

\* the characters of the short range bounds: '0', '1', '9' (start and end are
\* printed by str() from the configured integers)
DigitPool == {0, 1, 9}

\* the characters of the short ICCIDs: the same and the fullwidth digit one
IccidDigitPool == DigitPool \cup {FULLWIDTH + 1}

DigitStrings(n) == [1..n -> DigitPool]

IccidStrings(n) == [1..n -> IccidDigitPool]

\* int(s) of a short digit string
RECURSIVE ToInt(_)
ToInt(s) ==
    IF s = <<>> THEN 0
    ELSE 10 * ToInt(SubSeq(s, 1, Len(s) - 1)) + DigitValue(s[Len(s)])

\* every character of s is one of '0'..'9'
IsAsciiDigits(s) == \A n \in 1..Len(s) : s[n] \in 0..9

\* RetryPolicy(max_attempts=m).can_retry(a)
CanRetryCalls ==
    { [fn |-> "can_retry", max_attempts |-> m, attempt |-> a, done |-> FALSE,
       out |-> FALSE] :
          m \in 0..MaxAttemptsCfg, a \in (0 - MaxAttemptArg)..MaxAttemptArg }

\* RetryPolicy(delay_seconds=5.0, backoff_factor=2.0).next_delay(a)
NextDelayCalls ==
    { [fn |-> "next_delay", attempt |-> a, done |-> FALSE, out |-> 0] :
          a \in (0 - MaxAttemptArg)..MaxAttemptArg }

\* the ICCID just below the default eSIM range
IccidBelow == <<8,9,2,3,8,0,1,0,0,0,0,1,0,0,9,9,9,9,9,9>>

\* EsimRange(start, end).is_esim(iccid) before it runs; start and end are the
\* texts str() gives for the configured bounds
IsEsimCall(start, end, iccid) ==
    [fn |-> "is_esim", start |-> start, end |-> end, iccid |-> iccid,
     done |-> FALSE, out |-> FALSE, raised |-> FALSE]

\* the characters of the short numeric ICCIDs: every kind isdigit() accepts
NumericPool == IccidDigitPool \cup {SUPERSCRIPT}

\* the characters of the short ICCIDs of any kind
AnyPool == {1, 9, LETTER, SPACE, SUPERSCRIPT}

\* bounds of every kind: two numeric ones, a word (str(None) is one), a
\* superscript digit, the empty text and a numeric text with a blank
OddBounds == {<<1>>, <<1, 9>>, <<LETTER>>, <<SUPERSCRIPT>>, <<>>, <<SPACE, 1>>}

\* 21-digit ICCIDs: out of the default range with a valid Luhn digit, and in
\* the range with an invalid one
IccidOutLuhn == IccidOut \o <<0>>
IccidBNoLuhn == IccidB \o <<2>>

\* the digits of the bounds of any length (str() of an integer has no
\* leading zero)
BoundPool == {1, 9}

\* numeric bounds of up to MaxDigits digits
NumericBounds == SeqsUpTo(BoundPool, MaxDigits) \ {<<>>}

\* numeric ICCIDs of up to one digit more than the bounds
NumericIccids == SeqsUpTo(NumericPool, MaxDigits + 1) \ {<<>>}

\* ICCIDs of every kind, None included
MalformedIccids == SeqsUpTo(AnyPool, MaxDigits + 1) \cup {None}

\* 20-digit and 21-digit ICCIDs around the default range
DefaultRangeIccids ==
    {EsimStart, EsimEnd, IccidA, IccidB, IccidOut, IccidBelow,
     IccidBLuhn, IccidOutLuhn, IccidBNoLuhn}

\* the characters of the texts given to luhn_valid: digits whose double is
\* below and above 9, a fullwidth digit, a superscript digit and a letter
LuhnPool == {0, 1, 5, 8, FULLWIDTH + 1, SUPERSCRIPT, LETTER}

\* texts of up to one character more than the bounds, and the 20-digit and
\* 21-digit ICCIDs
LuhnTexts == SeqsUpTo(LuhnPool, MaxDigits + 1) \cup DefaultRangeIccids

\* EsimRange.luhn_valid(num_str) before it runs
LuhnValidCalls ==
    { [fn |-> "luhn_valid", num_str |-> t, done |-> FALSE, out |-> FALSE,
       raised |-> FALSE] : t \in LuhnTexts }

\* EsimRange(start, end).is_esim(iccid): short strings of one length, numeric
\* bounds with numeric ICCIDs of other lengths, bounds and ICCIDs of every
\* kind, and the default range with 20-digit and 21-digit ICCIDs
IsEsimCalls ==
    \/ \E n \in 1..MaxDigits :
         \E start \in DigitStrings(n), end \in DigitStrings(n),
            iccid \in IccidStrings(n) :
              call = IsEsimCall(start, end, iccid)
    \/ \E start \in NumericBounds, end \in NumericBounds,
          iccid \in NumericIccids :
            call = IsEsimCall(start, end, iccid)
    \/ \E start \in OddBounds, end \in OddBounds, iccid \in MalformedIccids :
            call = IsEsimCall(start, end, iccid)
    \/ \E iccid \in DefaultRangeIccids :
            call = IsEsimCall(EsimStart, EsimEnd, iccid)

InitRules ==
    /\ xml = [wellformed |-> TRUE, items |-> <<>>]
    /\ max_attempts = 1
    /\ batch_size = 1
    /\ pc = "idle"
    /\ FileIdle
    /\ RunIdle
    /\ LockIdle
    /\ \/ call \in CanRetryCalls \cup NextDelayCalls
       \/ call \in LuhnValidCalls
       \/ IsEsimCalls
    /\ ClientIdle

ApplyCanRetry ==
    /\ call.fn = "can_retry"
    /\ ~call.done
    /\ call' = [call EXCEPT !.done = TRUE,
                            !.out = can_retry(call.max_attempts, call.attempt)]
    /\ UNCHANGED <<file_vars, run_vars, lock_vars, client_vars>>

ApplyNextDelay ==
    /\ call.fn = "next_delay"
    /\ ~call.done
    /\ call' = [call EXCEPT !.done = TRUE, !.out = next_delay(call.attempt)]
    /\ UNCHANGED <<file_vars, run_vars, lock_vars, client_vars>>

ApplyIsEsim ==
    /\ call.fn = "is_esim"
    /\ ~call.done
    /\ LET start_s == Strip(call.start)
           end_s == Strip(call.end)
           raises == is_esim_raises(start_s, end_s, call.iccid)
       IN  call' = [call EXCEPT
                      !.done = TRUE,
                      !.raised = raises,
                      !.out = IF raises THEN FALSE
                              ELSE is_esim(start_s, end_s, call.iccid)]
    /\ UNCHANGED <<file_vars, run_vars, lock_vars, client_vars>>

ApplyLuhnValid ==
    /\ call.fn = "luhn_valid"
    /\ ~call.done
    /\ LET raises == luhn_valid_raises(call.num_str)
       IN  call' = [call EXCEPT
                      !.done = TRUE,
                      !.raised = raises,
                      !.out = IF raises THEN FALSE
                              ELSE luhn_valid(call.num_str)]
    /\ UNCHANGED <<file_vars, run_vars, lock_vars, client_vars>>

NextRules ==
    \/ ApplyCanRetry
    \/ ApplyNextDelay
    \/ ApplyIsEsim
    \/ ApplyLuhnValid

SpecRules == InitRules /\ [][NextRules]_vars

\* a call of fn has returned
Returned(fn) == call.fn = fn /\ call.done

\* C18: can_retry(attempt) is true exactly when attempt < max_attempts, for
\* every integer attempt, zero and negative ones included; with
\* max_attempts = 3 it is true for 0, 1 and 2 and false for 3.
C18_CanRetryIsLessThanMax ==
    Returned("can_retry") =>
        /\ call.out <=> (call.attempt < call.max_attempts)
        /\ (call.max_attempts = 3 /\ call.attempt \in {0, 1, 2}) => call.out
        /\ (call.max_attempts = 3 /\ call.attempt = 3) => ~call.out

C18_Witness ==
    /\ Returned("can_retry")
    /\ call.max_attempts = 3
    /\ call.attempt = 0
    /\ call.out

\* C19: next_delay(attempt) is delay_seconds * backoff_factor^(a - 1) where a
\* is attempt, or 1 when attempt <= 0; with delay_seconds = 5 and
\* backoff_factor = 2 the delays of attempts 1, 2, 3 are 5, 10, 20 and every
\* attempt <= 0 gives 5.
C19_NextDelayIsExponentialBackoff ==
    Returned("next_delay") =>
        /\ call.attempt <= 1 => call.out = 5
        /\ call.attempt = 2 => call.out = 10
        /\ call.attempt = 3 => call.out = 20
        /\ call.attempt >= 1 =>
               call.out = delay_seconds * Pow(backoff_factor, call.attempt - 1)

C19_Witness ==
    /\ Returned("next_delay")
    /\ call.attempt = 0
    /\ call.out = 5

\* the strings of an is_esim call that returned are numeric and of one length
SameLengthCall ==
    /\ Returned("is_esim")
    /\ IsDigit(call.iccid) /\ IsDigit(call.start) /\ IsDigit(call.end)
    /\ Len(call.iccid) = Len(call.start)
    /\ Len(call.start) = Len(call.end)

\* the answer of the call is the one comparing the integer values gives
AgreesWithIntegers ==
    call.out <=> (/\ ToInt(call.start) <= ToInt(call.iccid)
                  /\ ToInt(call.iccid) <= ToInt(call.end))

\* C20 (as claimed): for every numeric string s of the length of start and
\* end, is_esim(s) is true exactly when start <= s <= end as strings, and
\* this is the same as comparing the integer values.
C20_SameLengthAgreesWithIntegers ==
    (SameLengthCall /\ Len(call.iccid) <= MaxDigits + 1) =>
        /\ call.out <=> (StrLeq(call.start, call.iccid) /\ StrLeq(call.iccid, call.end))
        /\ AgreesWithIntegers

\* C20 (amended): for every numeric string s of the length of start and end,
\* is_esim(s) is true exactly when start <= s <= end as strings, both bounds
\* included; when s is made of the characters '0'..'9' only (start and end
\* always are),
\* this is the same as start <= s <= end on their integer values (computed
\* for the short strings; for the 20-digit default range the expected
\* answers are those of the tests).
C20_SameLengthIsInclusiveRange ==
    SameLengthCall =>
        /\ call.out <=> (StrLeq(call.start, call.iccid) /\ StrLeq(call.iccid, call.end))
        /\ (/\ Len(call.iccid) <= MaxDigits + 1
            /\ IsAsciiDigits(call.iccid)) => AgreesWithIntegers
        /\ (call.iccid = call.start /\ StrLeq(call.start, call.end)) => call.out
        /\ (call.iccid = call.end /\ StrLeq(call.start, call.end)) => call.out
        /\ (call.start = EsimStart /\ call.end = EsimEnd) =>
               (call.out <=> call.iccid \in {EsimStart, EsimEnd, IccidA, IccidB})

C20_Witness ==
    /\ Returned("is_esim")
    /\ call.start = EsimStart
    /\ call.end = EsimEnd
    /\ call.iccid = EsimEnd
    /\ call.out

\* the identifier of the call contains a character that is not a digit
HasNonDigit(s) == \E n \in 1..Len(s) : s[n] \in {LETTER, SPACE, CTRL}

\* C21 (as claimed): is_esim returns false for a null identifier, for the
\* empty string, and for any identifier containing a non-digit character.
C21_NonDigitIsNeverEsim ==
    (/\ Returned("is_esim")
     /\ \/ call.iccid = None
        \/ call.iccid = <<>>
        \/ HasNonDigit(call.iccid)) =>
        (~call.raised /\ ~call.out)

\* C21 (amended): is_esim returns false for a null identifier, for the empty
\* string, and for any identifier that still contains a non-digit character
\* or is empty once the whitespace around it is stripped; an identifier that
\* is numeric apart from surrounding whitespace is classified like the
\* stripped identifier.
C21_NonDigitAfterStripIsNeverEsim ==
    Returned("is_esim") =>
        /\ (\/ call.iccid = None
            \/ call.iccid = <<>>
            \/ Strip(call.iccid) = <<>>
            \/ HasNonDigit(Strip(call.iccid))) =>
               (~call.raised /\ ~call.out)
        /\ (/\ call.iccid # None
            /\ Strip(call.iccid) # <<>>
            /\ ~HasNonDigit(Strip(call.iccid))
            /\ ~call.raised) =>
               (call.out <=> is_esim(Strip(call.start), Strip(call.end),
                                     Strip(call.iccid)))

\* is_esim("abc") with the bounds 1 and 19 returned false
C21_Witness ==
    /\ Returned("is_esim")
    /\ call.start = <<1>>
    /\ call.end = <<1, 9>>
    /\ call.iccid = <<LETTER, LETTER, LETTER>>
    /\ ~call.raised
    /\ ~call.out

\* the Luhn total of the digits of s read from the right, every second one
\* doubled, from the n rightmost characters
RECURSIVE LuhnFromRight(_, _)
LuhnFromRight(s, n) ==
    IF n = 0 THEN 0
    ELSE LET d == DigitValue(s[Len(s) - n + 1])
             dd == IF 2 * d > 9 THEN 2 * d - 9 ELSE 2 * d
         IN  LuhnFromRight(s, n - 1) + (IF n % 2 = 0 THEN dd ELSE d)

\* s is made of digits with a value and passes the Luhn check
PassesLuhn(s) ==
    /\ s # <<>>
    /\ CanParseInt(s)
    /\ LuhnFromRight(s, Len(s)) % 10 = 0

\* the call returned, start and end are numeric texts of one length and the
\* identifier is a numeric text one character longer
OneLongerCall ==
    /\ Returned("is_esim")
    /\ IsDigit(call.start)
    /\ IsDigit(call.end)
    /\ Len(call.start) = Len(call.end)
    /\ call.iccid # None
    /\ IsDigit(call.iccid)
    /\ Len(call.iccid) = Len(call.start) + 1

\* C22: for every identifier exactly one character longer than start/end
\* whose full string passes the Luhn check, is_esim(identifier) is the
\* same-length range comparison of the identifier without its last
\* character, which is is_esim of that shorter identifier; the 21-digit
\* identifier 89238010000101567890 + check digit 1 is classified like the
\* 20-digit one.
C22_LuhnDigitIsStripped ==
    (OneLongerCall /\ PassesLuhn(call.iccid)) =>
        LET candidate == SubSeq(call.iccid, 1, Len(call.iccid) - 1)
        IN  /\ ~call.raised
            /\ call.out <=> (/\ StrLeq(call.start, candidate)
                             /\ StrLeq(candidate, call.end))
            /\ call.out <=> is_esim(call.start, call.end, candidate)
            /\ call.iccid = IccidBLuhn => call.out
            /\ call.iccid = IccidOutLuhn => ~call.out

C22_Witness ==
    /\ Returned("is_esim")
    /\ call.start = EsimStart
    /\ call.end = EsimEnd
    /\ call.iccid = IccidBLuhn
    /\ PassesLuhn(call.iccid)
    /\ call.out

\* C23: is_esim never raises: for every input (null, empty, non-numeric, any
\* length, any start/end) it returns a boolean.
C23_IsEsimNeverRaises ==
    Returned("is_esim") => ~call.raised

\* the call returned, the three texts are numeric and parse as integers, the
\* lengths are not all the same and the identifier is not one that is one
\* character longer than start and passes the Luhn check
FallbackCall ==
    /\ Returned("is_esim")
    /\ call.iccid # None
    /\ IsDigit(call.iccid) /\ CanParseInt(call.iccid)
    /\ IsDigit(call.start) /\ CanParseInt(call.start)
    /\ IsDigit(call.end) /\ CanParseInt(call.end)
    /\ ~(/\ Len(call.iccid) = Len(call.start)
         /\ Len(call.start) = Len(call.end))
    /\ ~(/\ Len(call.iccid) = Len(call.start) + 1
         /\ PassesLuhn(call.iccid))

\* C24: for a numeric identifier whose length differs from that of start/end
\* and that does not qualify for Luhn stripping, is_esim returns
\* int(start) <= int(identifier) <= int(end) (computed for the short texts;
\* the 21-digit identifier with a wrong check digit is above the default
\* range).
C24_OtherLengthsCompareAsIntegers ==
    FallbackCall =>
        /\ ~call.raised
        /\ Len(call.iccid) <= MaxDigits + 1 =>
               (call.out <=> (/\ ToInt(call.start) <= ToInt(call.iccid)
                              /\ ToInt(call.iccid) <= ToInt(call.end)))
        /\ call.iccid = IccidBNoLuhn => ~call.out

\* is_esim("10") with the bounds 9 and 19 returned true
C24_Witness ==
    /\ FallbackCall
    /\ call.start = <<9>>
    /\ call.end = <<1, 9>>
    /\ call.iccid = <<1, 0>>
    /\ call.out

\* C31: for every digit string (even and odd lengths), luhn_valid returns
\* true iff the standard Luhn checksum holds: scanning from the right, every
\* second digit starting with the one next to the rightmost is doubled (minus
\* 9 when above 9), and the sum of all digits is 0 modulo 10; for non-digit
\* strings it returns false.
C31_LuhnValidIsStandardLuhn ==
    Returned("luhn_valid") =>
        /\ ~call.raised
        /\ IF call.num_str # <<>> /\ IsAsciiDigits(call.num_str)
           THEN call.out <=> (LuhnFromRight(call.num_str,
                                            Len(call.num_str)) % 10 = 0)
           ELSE ~call.out

\* the standard checksum, for the texts made of '0'..'9'
C31_DigitStringsFollowLuhn ==
    (Returned("luhn_valid") /\ call.num_str # <<>>
        /\ IsAsciiDigits(call.num_str)) =>
        /\ ~call.raised
        /\ call.out <=> (LuhnFromRight(call.num_str, Len(call.num_str)) % 10 = 0)

\* a returned identifier, for start and end of one length, that is neither of
\* that length nor one character longer with a valid Luhn check digit
OtherShapeCall ==
    /\ Returned("is_esim")
    /\ ~call.raised
    /\ call.iccid # None
    /\ LET iccid_s == Strip(call.iccid)
           start_s == Strip(call.start)
           end_s == Strip(call.end)
       IN  /\ Len(start_s) = Len(end_s)
           /\ Len(iccid_s) # Len(start_s)
           /\ ~(Len(iccid_s) = Len(start_s) + 1 /\ PassesLuhn(iccid_s))

\* C32: is_esim returns true only for identifiers that either have exactly
\* the length of start/end, or are exactly one character longer with a valid
\* Luhn check digit; an identifier of any other shape (one character longer
\* with an invalid check digit, or padded with leading zeros to a different
\* length) is never classified as eSIM.
C32_OnlyTwoShapesAreEsim ==
    OtherShapeCall => ~call.out

(***************************************************************************)
(* helpers/lock_manager.py : ProcessLock.  Each process of Procs builds a  *)
(* ProcessLock on the same lock file, calls acquire(force=False), holds    *)
(* the lock for its run and calls release(), as run() of main.py does: ran *)
(* tells that run() went on after acquire to look for files, path and      *)
(* exit_code tell how its try statement ended.  The PID of process p is p. *)
(* A step is one file system call (exists, read_text, unlink, write_text)  *)
(* or one os.kill probe, with the statements that follow it.  The lock     *)
(* file is in the default directory /tmp, which has the sticky bit: a file *)
(* there is removed or rewritten by the user who owns it only.             *)
(***************************************************************************)
Procs == 1..NumProcs

\* PID of a process that died earlier without releasing the lock
DeadPid == NumProcs + 1

\* the users of the host
Uids == {1, 2}

\* the user the dead process ran as
DeadUid == 1

\* run: lock = ProcessLock() with self.locked = False; exit_code = 0
FreshLock ==
    [pc |-> "idle", locked |-> FALSE, pid |-> 0, ran |-> FALSE,
     path |-> "none", exit_code |-> 0]

\* how the try statement of run() ends once acquire has returned: no file
\* was found (return 0), the loop over the files completed, or an exception
\* reached "except Exception" (exit_code = 1)
RunEnds ==
    { [path |-> "no_files", exit_code |-> 0],
      [path |-> "completed", exit_code |-> 0],
      [path |-> "fatal", exit_code |-> 1] }

\* the RuntimeError of acquire ends the try statement in "except Exception"
RefusedEnd == [path |-> "fatal", exit_code |-> 1]

InitLock ==
    /\ xml = [wellformed |-> TRUE, items |-> <<>>]
    /\ max_attempts = 1
    /\ batch_size = 1
    /\ pc = "idle"
    /\ FileIdle
    /\ RunIdle
    /\ call = NoCall
    /\ ClientIdle
    /\ lock_file \in {0, DeadPid}
    /\ procs = [p \in Procs |-> FreshLock]
    /\ uid \in { u \in [Procs -> Uids] : u[1] = 1 }

\* a process with this PID is running
IsProcessRunning(pid) == pid \in Procs /\ procs[pid].pc # "exited"

\* the user who owns the lock file: the one who wrote it
FileOwner == IF lock_file \in Procs THEN uid[lock_file] ELSE DeadUid

\* _is_process_running(pid) called by process p: os.kill(pid, 0) raises no
\* OSError; it raises ProcessLookupError when no such process runs and
\* PermissionError when the process belongs to another user
ProbeSucceeds(p, pid) == IsProcessRunning(pid) /\ uid[pid] = uid[p]

\* process p moves to position to
Goto(p, to) == procs' = [procs EXCEPT ![p].pc = to]

\* acquire: "if self.locked" is false for a fresh lock; is_locked() is entered
AcquireStart(p) ==
    /\ procs[p].pc = "idle"
    /\ Goto(p, "exists")
    /\ UNCHANGED <<lock_file, uid, file_vars, run_vars, call, client_vars>>

\* is_locked: self.lock_file.exists()
CheckExists(p) ==
    /\ procs[p].pc = "exists"
    /\ Goto(p, IF lock_file = 0 THEN "write" ELSE "read_pid")
    /\ UNCHANGED <<lock_file, uid, file_vars, run_vars, call, client_vars>>

\* is_locked: pid = self._read_pid(); None when the file has gone
ReadPid(p) ==
    /\ procs[p].pc = "read_pid"
    /\ procs' = [procs EXCEPT ![p].pid = lock_file,
                              ![p].pc = IF lock_file = 0 THEN "write" ELSE "running"]
    /\ UNCHANGED <<lock_file, uid, file_vars, run_vars, call, client_vars>>

\* is_locked: self._is_process_running(pid); when it is true, acquire raises
\* RuntimeError
CheckRunning(p) ==
    /\ procs[p].pc = "running"
    /\ Goto(p, IF ProbeSucceeds(p, procs[p].pid) THEN "refused"
               ELSE "unlink_stale")
    /\ UNCHANGED <<lock_file, uid, file_vars, run_vars, call, client_vars>>

\* is_locked: the stale lock file is removed (a FileNotFoundError, and the
\* PermissionError for the file of another user, are caught and is_locked
\* returns False)
UnlinkStale(p) ==
    /\ procs[p].pc = "unlink_stale"
    /\ lock_file' = IF FileOwner = uid[p] THEN 0 ELSE lock_file
    /\ Goto(p, "write")
    /\ UNCHANGED <<uid, file_vars, run_vars, call, client_vars>>

\* acquire: write_text(pid); self.locked = True; the PermissionError for
\* the file of another user is caught and acquire returns False, which run()
\* does not look at: in both cases run() goes on to look for files
WriteLock(p) ==
    /\ procs[p].pc = "write"
    /\ IF lock_file = 0 \/ FileOwner = uid[p]
       THEN /\ lock_file' = p
            /\ procs' = [procs EXCEPT ![p].locked = TRUE, ![p].ran = TRUE,
                                      ![p].pc = "holding"]
       ELSE /\ lock_file' = lock_file
            /\ procs' = [procs EXCEPT ![p].ran = TRUE, ![p].pc = "unlocked"]
    /\ UNCHANGED <<uid, file_vars, run_vars, call, client_vars>>

\* run: the try statement ends by e and the finally clause calls release
\* after acquire raised or returned False: self.locked is false, release
\* returns False
ReleaseNotHeld(p, e) ==
    /\ procs[p].pc \in {"unlocked", "refused"}
    /\ procs[p].pc = "refused" => e = RefusedEnd
    /\ procs' = [procs EXCEPT ![p].path = e.path,
                              ![p].exit_code = e.exit_code,
                              ![p].pc = "done"]
    /\ UNCHANGED <<lock_file, uid, file_vars, run_vars, call, client_vars>>

\* ReleaseStart that leaves run() without releasing after a fatal exception
ReleaseStart_NotOnFatal(p, e) ==
    /\ procs[p].pc = "holding"
    /\ procs' = [procs EXCEPT
                   ![p].path = e.path,
                   ![p].exit_code = e.exit_code,
                   ![p].pc = IF e.path = "fatal" THEN "done"
                             ELSE IF lock_file = 0 THEN "rel_clear"
                             ELSE "rel_read"]
    /\ UNCHANGED <<lock_file, uid, file_vars, run_vars, call, client_vars>>

\* run: the try statement ends by e and the finally clause calls release:
\* self.locked is true; self.lock_file.exists()
ReleaseStart(p, e) ==
    /\ procs[p].pc = "holding"
    /\ procs' = [procs EXCEPT
                   ![p].path = e.path,
                   ![p].exit_code = e.exit_code,
                   ![p].pc = IF lock_file = 0 THEN "rel_clear" ELSE "rel_read"]
    /\ UNCHANGED <<lock_file, uid, file_vars, run_vars, call, client_vars>>

\* release: self._read_pid() == self.pid
ReleaseRead(p) ==
    /\ procs[p].pc = "rel_read"
    /\ procs' = [procs EXCEPT ![p].pid = lock_file,
                              ![p].pc = IF lock_file = p THEN "rel_unlink" ELSE "rel_clear"]
    /\ UNCHANGED <<lock_file, uid, file_vars, run_vars, call, client_vars>>

\* release: self.lock_file.unlink(); when the file has gone the error is
\* caught and release returns False with self.locked still true
ReleaseUnlink(p) ==
    /\ procs[p].pc = "rel_unlink"
    /\ lock_file' = 0
    /\ Goto(p, IF lock_file = 0 THEN "done" ELSE "rel_clear")
    /\ UNCHANGED <<uid, file_vars, run_vars, call, client_vars>>

\* release: self.locked = False
ReleaseClear(p) ==
    /\ procs[p].pc = "rel_clear"
    /\ procs' = [procs EXCEPT ![p].locked = FALSE, ![p].pc = "done"]
    /\ UNCHANGED <<lock_file, uid, file_vars, run_vars, call, client_vars>>

\* the process ends after run() returned
Exit(p) ==
    /\ procs[p].pc = "done"
    /\ procs' = [procs EXCEPT ![p] = [FreshLock EXCEPT !.pc = "exited"]]
    /\ UNCHANGED <<lock_file, uid, file_vars, run_vars, call, client_vars>>

\* the process builds another ProcessLock after release returned
NewInstance(p) ==
    /\ procs[p].pc = "done"
    /\ procs' = [procs EXCEPT ![p] = FreshLock]
    /\ UNCHANGED <<lock_file, uid, file_vars, run_vars, call, client_vars>>

\* the process is killed while it holds the lock: no handler runs
Crash(p) ==
    /\ procs[p].pc = "holding"
    /\ procs' = [procs EXCEPT ![p] = [FreshLock EXCEPT !.pc = "exited"]]
    /\ UNCHANGED <<lock_file, uid, file_vars, run_vars, call, client_vars>>

NextLock ==
    \E p \in Procs :
        \/ AcquireStart(p)
        \/ CheckExists(p)
        \/ ReadPid(p)
        \/ CheckRunning(p)
        \/ UnlinkStale(p)
        \/ WriteLock(p)
        \/ \E e \in RunEnds : ReleaseNotHeld(p, e)
        \/ \E e \in RunEnds : ReleaseStart(p, e)
        \/ ReleaseRead(p)
        \/ ReleaseUnlink(p)
        \/ ReleaseClear(p)
        \/ Exit(p)
        \/ NewInstance(p)
        \/ Crash(p)

SpecLock == InitLock /\ [][NextLock]_vars

\* the running processes whose ProcessLock has locked == True
Holders == { p \in Procs : procs[p].locked /\ procs[p].pc # "exited" }

\* C16 (as claimed): whatever the interleaving of the steps of acquire and
\* release of the processes, at most one running process has locked == True.
C16_AtMostOneHolder == Cardinality(Holders) <= 1

\* process p takes a step of acquire or release
LockStep(p) == procs'[p] # procs[p]

\* acquire of process p, in is_locked, finds the lock file naming the PID of
\* a running process: at exists() and read_text() the file names one, at
\* the os.kill probe it still names the PID that was read and that process
\* runs
FindsRunningHolder(p) ==
    /\ procs[p].pc \in {"exists", "read_pid", "running"}
    /\ IsProcessRunning(lock_file)
    /\ procs[p].pc = "running" => procs[p].pid = lock_file

\* C28 (as claimed): while the lock file names the PID of a running process,
\* acquire(force=False) of another ProcessLock goes through exists(),
\* _read_pid() and the os.kill probe to RuntimeError, leaving the lock file
\* and its locked flag (False) as they are; while the lock file names the
\* holder, its release() reads its own PID, removes the file and clears
\* locked; and an acquire() that finds no lock file writes its PID and sets
\* locked.
C28_RefusedWhileHeldThenReacquired ==
    [][\A p \in Procs :
         /\ (LockStep(p) /\ FindsRunningHolder(p)) =>
               /\ lock_file' = lock_file
               /\ ~procs'[p].locked
               /\ procs[p].pc = "exists" => procs'[p].pc = "read_pid"
               /\ procs[p].pc = "read_pid" => procs'[p].pc = "running"
               /\ procs[p].pc = "running" => procs'[p].pc = "refused"
         /\ (LockStep(p) /\ lock_file = p /\ procs'[p].pc # "exited") =>
               /\ procs[p].pc = "holding" => procs'[p].pc = "rel_read"
               /\ procs[p].pc = "rel_read" => procs'[p].pc = "rel_unlink"
               /\ procs[p].pc = "rel_unlink" =>
                      (lock_file' = 0 /\ procs'[p].pc = "rel_clear")
         /\ (LockStep(p) /\ procs[p].pc = "rel_clear") =>
               (~procs'[p].locked /\ procs'[p].pc = "done")
         /\ (LockStep(p) /\ lock_file = 0) =>
               /\ procs[p].pc = "exists" => procs'[p].pc = "write"
               /\ procs[p].pc = "write" =>
                      /\ lock_file' = p
                      /\ procs'[p].locked
                      /\ procs'[p].pc = "holding"
    ]_vars

\* process p, in acquire, has read from the lock file the PID of a process
\* that is no longer running, and when the file exists it still names it
ReadStalePid(p) ==
    /\ procs[p].pc \in {"running", "unlink_stale", "write"}
    /\ procs[p].pid # 0
    /\ ~IsProcessRunning(procs[p].pid)
    /\ lock_file \in {0, procs[p].pid}

\* C38 (as claimed): if the lock file names a PID that is no longer running,
\* acquire() by another process removes the stale file and succeeds, leaving
\* the file with the acquirer's PID and locked == True: a lock held by a dead
\* process never blocks a later run.
C38_StaleLockIsReclaimed ==
    [][\A p \in Procs :
         (LockStep(p) /\ ReadStalePid(p)) =>
             /\ procs[p].pc = "running" => procs'[p].pc = "unlink_stale"
             /\ procs[p].pc = "unlink_stale" =>
                    (lock_file' = 0 /\ procs'[p].pc = "write")
             /\ procs[p].pc = "write" =>
                    /\ lock_file' = p
                    /\ procs'[p].locked
                    /\ procs'[p].pc = "holding"
    ]_vars

\* C39: run() releases the process lock it acquired on every exit path (no
\* files found, normal completion, fatal exception during processing): once
\* run() has returned, its lock file is gone and another run can acquire the
\* lock: the file, when there is one, does not name the process that
\* returned.
C39_LockReleasedOnEveryExitPath ==
    \A p \in Procs :
        procs[p].pc = "done" =>
            /\ procs[p].path \in {"no_files", "completed", "fatal"}
            /\ lock_file # p

\* a run that wrote the lock file and ended by a fatal exception has
\* returned 1 with the lock file removed, and the other process has then
\* acquired the lock
C39_Witness ==
    /\ procs[1].pc = "done"
    /\ procs[1].ran
    /\ procs[1].path = "fatal"
    /\ procs[1].exit_code = 1
    /\ ~procs[1].locked
    /\ procs[2].pc = "holding"
    /\ lock_file = 2

\* C40 (as claimed): when another live process holds the lock, run()
\* discovers no file, makes no remote call and moves no file, returns exit
\* code 1, and leaves the other process's lock file in place (its own
\* release in the finally block removes nothing).
C40_RefusedRunDoesNothing ==
    [][\A p \in Procs :
         /\ (LockStep(p) /\ FindsRunningHolder(p) /\ lock_file # p) =>
               /\ lock_file' = lock_file
               /\ ~procs'[p].ran
               /\ procs[p].pc = "running" => procs'[p].pc = "refused"
         /\ (LockStep(p) /\ procs[p].pc = "refused") =>
               /\ lock_file' = lock_file
               /\ ~procs'[p].ran
               /\ procs'[p].pc = "done"
               /\ procs'[p].exit_code = 1
    ]_vars

(***************************************************************************)
(* main.py : ESIMDeactivationOrchestrator.run, the main processing loop    *)
(* around _process_file.  A file is named by its position in remote_files. *)
(***************************************************************************)
\* an item of a file: the n-th ICCID of the eSIM range, to deactivate
RunItem(n) == [iccid |-> NumberedIccid(n), action |-> "DEACTIVATE"]

\* a file with one invalid item and n distinct eligible ICCIDs, the first of
\* them twice
RunItems(n) ==
    <<[iccid |-> IccidAlpha, action |-> "DEACTIVATE"], RunItem(1)>>
        \o (IF n >= 2 THEN <<RunItem(2), RunItem(1)>> ELSE <<>>)
        \o [j \in 1..(n - 2) |-> RunItem(j + 2)]

\* a remote file that downloads to a well-formed document of these items
RunFile(items) == [downloads |-> TRUE, xml |-> [wellformed |-> TRUE, items |-> items]]

\* small files: one eligible ICCID next to an invalid item, an invalid item
\* alone, a malformed document, and a file whose download fails
SmallFilePool ==
    { RunFile(RunItems(1)),
      RunFile(<<[iccid |-> IccidAlpha, action |-> "DEACTIVATE"]>>),
      [downloads |-> TRUE, xml |-> [wellformed |-> FALSE, items |-> <<>>]],
      [downloads |-> FALSE, xml |-> [wellformed |-> FALSE, items |-> <<>>]] }

\* files with several eligible ICCIDs
LargeFilePool == { RunFile(RunItems(n)) : n \in 2..MaxRunRecords }

\* what _discover_files lists: up to MaxFiles small files, or one large file,
\* alone or after a small one
RunFileLists ==
    SeqsUpTo(SmallFilePool, MaxFiles)
        \cup { <<f>> : f \in LargeFilePool }
        \cup { <<f, g>> : f \in SmallFilePool, g \in LargeFilePool }

\* the remote system answers Executed-Success or the unexpected status
\* "Expired" during a run
RunTransportOutcomes ==
    { [raised |-> FALSE, body |-> Body("Executed-Success", Absent, Absent, Absent, Absent),
       error |-> ""],
      [raised |-> FALSE, body |-> Body("Expired", Absent, Absent, Absent, Absent),
       error |-> ""] }

InitRun ==
    /\ remote_files \in RunFileLists
    /\ xml = [wellformed |-> TRUE, items |-> <<>>]
    /\ max_attempts = MaxAttemptsCfg
    /\ batch_size \in 1..MaxBatchSize
    /\ pc = "run"
    /\ FileIdle
    /\ file_idx = 0
    /\ files_processed = <<>>
    /\ files_failed = <<>>
    /\ all_results = <<>>
    /\ exit_code = 0
    /\ done_folder = {}
    /\ file_verdicts = <<>>
    /\ fault = "none"
    /\ LockIdle
    /\ call = NoCall
    /\ ClientIdle

\* the locals of _process_file and _process_batch are those of a new call
ResetFile ==
    /\ file_results' = <<>>
    /\ deactivations' = <<>>
    /\ i' = 0
    /\ results' = <<>>
    /\ k' = 0
    /\ result' = NoResult
    /\ attempt' = 0
    /\ attempts' = 0
    /\ ret' = NoRet
    /\ verdict' = FALSE
    /\ calls' = 0
    /\ expire_calls' = 0
    /\ waits' = <<>>
    /\ client_waits' = <<>>
    /\ only_failed' = FALSE
    /\ only_raised' = FALSE
    /\ after_final' = 0
    /\ remote_iccids' = {}
    /\ rate_waits' = 0
    /\ batch_sizes' = <<>>
    /\ fault' = "none"

\* run: the next remote_file is downloaded; a failed download puts the file
\* in files_failed, otherwise _process_file is called
RunNextFile ==
    /\ pc = "run"
    /\ file_idx < Len(remote_files)
    /\ file_idx' = file_idx + 1
    /\ ResetFile
    /\ IF remote_files[file_idx + 1].downloads
       THEN /\ xml' = remote_files[file_idx + 1].xml
            /\ pc' = "start"
            /\ UNCHANGED <<files_failed, file_verdicts>>
       ELSE /\ files_failed' = Append(files_failed, file_idx + 1)
            /\ file_verdicts' = Append(file_verdicts, "none")
            /\ UNCHANGED <<xml, pc>>
    /\ UNCHANGED <<max_attempts, batch_size, remote_files, files_processed,
                   all_results, exit_code, done_folder, lock_vars, call,
                   client_vars>>

\* UncaughtError losing the outcomes gathered so far
UncaughtError_DropsResults ==
    /\ pc \in {"batch", "record", "finish", "ratelimit"}
    /\ remote_files # <<>>
    /\ fault' = pc
    /\ verdict' = FALSE
    /\ file_results' = <<>>
    /\ pc' = "returned"
    /\ UNCHANGED <<xml, max_attempts, batch_size, deactivations, i,
                   results, k, result, attempt, attempts, ret, calls, expire_calls,
                   waits, client_waits, only_failed, only_raised, after_final,
                   remote_iccids, rate_waits, batch_sizes>>
    /\ UNCHANGED <<remote_files, file_idx, files_processed, files_failed,
                   all_results, exit_code, done_folder, file_verdicts, lock_vars, call,
                   client_vars>>

\* an exception raised in _process_file outside the per-record try statement
\* of _process_batch (by the logging calls, the construction of a
\* ProcessingResult or time.sleep): the except clause of _process_file
\* returns False with file_results as it is
UncaughtError ==
    /\ pc \in {"batch", "record", "finish", "ratelimit"}
    /\ remote_files # <<>>
    /\ fault' = pc
    /\ verdict' = FALSE
    /\ pc' = "returned"
    /\ UNCHANGED <<xml, max_attempts, batch_size, file_results, deactivations, i,
                   results, k, result, attempt, attempts, ret, calls, expire_calls,
                   waits, client_waits, only_failed, only_raised, after_final,
                   remote_iccids, rate_waits, batch_sizes>>
    /\ UNCHANGED <<remote_files, file_idx, files_processed, files_failed,
                   all_results, exit_code, done_folder, file_verdicts, lock_vars, call,
                   client_vars>>

\* what _move_file_to_done and shutil.move do for a file that passed
MoveOutcomes == {"moved", "ftp_error", "local_error"}

\* AfterProcessFile moving the file whatever the verdict
AfterProcessFile_AlwaysMoves(mv) ==
    /\ pc = "returned"
    /\ remote_files # <<>>
    /\ all_results' = all_results \o file_results
    /\ file_verdicts' = Append(file_verdicts, IF verdict THEN "true" ELSE "false")
    /\ mv = "moved"
    /\ done_folder' = done_folder \cup {file_idx}
    /\ files_processed' = Append(files_processed, file_idx)
    /\ pc' = "run"
    /\ UNCHANGED <<files_failed, exit_code>>
    /\ UNCHANGED <<xml, max_attempts, batch_size, file_results, deactivations, i,
                   results, k, result, attempt, attempts, ret, verdict, calls,
                   expire_calls, waits, client_waits, only_failed, only_raised,
                   after_final, remote_iccids, rate_waits, batch_sizes>>
    /\ UNCHANGED <<remote_files, file_idx, fault, lock_vars, call,
                   client_vars>>

\* run: _process_file returned (success, file_results); the results are
\* added to all_results and the file is moved to the done folder when
\* success is true.  mv tells what the move does: "ftp_error" is
\* _move_file_to_done returning False, "local_error" is shutil.move raising
\* after the remote move, which ends the loop in the except clause of run.
AfterProcessFile(mv) ==
    /\ pc = "returned"
    /\ remote_files # <<>>
    /\ all_results' = all_results \o file_results
    /\ file_verdicts' = Append(file_verdicts, IF verdict THEN "true" ELSE "false")
    /\ IF ~verdict
       THEN /\ mv = "moved"    \* no move is attempted: one step whatever mv
            /\ files_failed' = Append(files_failed, file_idx)
            /\ pc' = "run"
            /\ UNCHANGED <<files_processed, done_folder, exit_code>>
       ELSE CASE mv = "moved" ->
                 /\ done_folder' = done_folder \cup {file_idx}
                 /\ files_processed' = Append(files_processed, file_idx)
                 /\ pc' = "run"
                 /\ UNCHANGED <<files_failed, exit_code>>
              [] mv = "ftp_error" ->
                 /\ files_failed' = Append(files_failed, file_idx)
                 /\ pc' = "run"
                 /\ UNCHANGED <<files_processed, done_folder, exit_code>>
              [] OTHER ->
                 /\ done_folder' = done_folder \cup {file_idx}
                 /\ exit_code' = 1
                 /\ pc' = "run_end"
                 /\ UNCHANGED <<files_processed, files_failed>>
    /\ UNCHANGED <<xml, max_attempts, batch_size, file_results, deactivations, i,
                   results, k, result, attempt, attempts, ret, verdict, calls,
                   expire_calls, waits, client_waits, only_failed, only_raised,
                   after_final, remote_iccids, rate_waits, batch_sizes>>
    /\ UNCHANGED <<remote_files, file_idx, fault, lock_vars, call,
                   client_vars>>

\* run: no file was found (return 0), or the loop is over and the exit code
\* is determined
RunFinish ==
    /\ pc = "run"
    /\ file_idx = Len(remote_files)
    /\ exit_code' = IF files_failed # <<>> /\ files_processed = <<>> THEN 1 ELSE 0
    /\ pc' = "run_end"
    /\ UNCHANGED <<file_vars_but_pc, remote_files, file_idx, files_processed,
                   files_failed, all_results, done_folder, file_verdicts, fault,
                   lock_vars, call, client_vars>>

NextRun ==
    \/ RunNextFile
    \/ ParseAndFilter
    \/ BeginBatch
    \/ BeginRecord
    \/ EnterExpireOrder
    \/ \E o \in RunTransportOutcomes : MakeRequest(o)
    \/ HandleResponse
    \/ FinishRecord
    \/ RateLimitSleep
    \/ ComputeVerdict
    \/ UncaughtError
    \/ \E mv \in MoveOutcomes : AfterProcessFile(mv)
    \/ RunFinish

SpecRun == InitRun /\ [][NextRun]_vars

\* the records of the file that _filter_deactivations keeps
Eligible == filter_deactivations(process_xml_file(xml).records)

\* no two entries of the sequence have the same ICCID
DistinctIccids(recs) ==
    \A m, n \in 1..Len(recs) : recs[m].iccid = recs[n].iccid => m = n

\* _process_file holds the deduplicated records and no error cut it short
FileInBatches ==
    /\ pc \in {"batch", "verdict", "returned"}
    /\ deactivations # <<>>
    /\ fault = "none"

\* C12: the records that enter the batches of a file hold each eligible ICCID
\* of the file exactly once, the record kept for an ICCID is its first
\* occurrence and the records keep the order of the file (examined when the
\* first batch is about to start); so the file has at most one
\* SUCCESS/FAILED outcome for an ICCID.
C12_DeduplicatedByIccid ==
    /\ (FileInBatches /\ pc = "batch" /\ i = 0) =>
            /\ DistinctIccids(deactivations)
            /\ \A n \in 1..Len(Eligible) :
                   \E m \in 1..Len(deactivations) :
                       /\ deactivations[m].iccid = Eligible[n].iccid
                       /\ deactivations[m].src <= Eligible[n].src
            /\ \A m \in 1..Len(deactivations) :
                   \E n \in 1..Len(Eligible) : Eligible[n] = deactivations[m]
            /\ \A m, n \in 1..Len(deactivations) :
                   m < n => deactivations[m].src < deactivations[n].src
    /\ FileInBatches =>
            /\ DistinctIccids(BatchOutcomes)
            /\ pc # "batch" => Len(BatchOutcomes) = Len(deactivations)

C12_Witness ==
    /\ pc = "returned"
    /\ fault = "none"
    /\ Len(Eligible) = 4
    /\ Eligible[1].iccid = Eligible[3].iccid
    /\ Len(deactivations) = 3
    /\ Len(BatchOutcomes) = 3
    /\ deactivations[1].src = 2
    /\ deactivations[2].src = 3
    /\ deactivations[3].src = 5

\* ceil(n / b)
CeilDiv(n, b) == (n + b - 1) \div b

\* C13: for n > 0 deduplicated records and batch size b, _process_file calls
\* _process_batch ceil(n/b) times, on consecutive slices of the records,
\* each of exactly b records except that the last one holds the remaining
\* n - (ceil(n/b) - 1) * b records; it sleeps for the rate limit once after
\* each batch but the last, ceil(n/b) - 1 times in all.
C13_BatchesAndRateLimitWaits ==
    LET n == Len(deactivations)
        b == batch_size
        nb == CeilDiv(n, b)
    IN  /\ (fault = "none" /\ deactivations # <<>>
             /\ pc \in {"record", "expire", "request", "response", "finish"}) =>
                /\ i = (Len(batch_sizes) - 1) * b
                /\ rate_waits = Len(batch_sizes) - 1
                /\ Len(Batch) = batch_sizes[Len(batch_sizes)]
                /\ Len(batch_sizes) <= nb
                /\ Len(batch_sizes) < nb => Len(Batch) = b
                /\ Len(batch_sizes) = nb => Len(Batch) = n - (nb - 1) * b
        /\ (fault = "none" /\ pc = "ratelimit") =>
                /\ rate_waits = Len(batch_sizes) - 1
                /\ Len(batch_sizes) < nb
        /\ (fault = "none" /\ deactivations # <<>> /\ pc \in {"verdict", "returned"}) =>
                /\ Len(batch_sizes) = nb
                /\ rate_waits = nb - 1
                /\ \A j \in 1..(nb - 1) : batch_sizes[j] = b
                /\ batch_sizes[nb] = n - (nb - 1) * b
                /\ batch_sizes[nb] \in 1..b
                /\ OneOutcomePerRecord(BatchOutcomes, deactivations)
                /\ Len(BatchOutcomes) = n

C13_Witness ==
    /\ pc = "returned"
    /\ fault = "none"
    /\ Len(deactivations) = 3
    /\ batch_size = 2
    /\ batch_sizes = <<2, 1>>
    /\ rate_waits = 1

\* C14: a file is in the done folder only if _process_file returned a true
\* verdict for it, and every file in files_processed is in the done folder;
\* a file whose verdict is false is never moved and is in files_failed once
\* the loop has gone on.
C14_MovedOnlyOnTrueVerdict ==
    pc \in {"run", "run_end"} =>
        /\ \A f \in done_folder :
               f <= Len(file_verdicts) /\ file_verdicts[f] = "true"
        /\ \A n \in 1..Len(files_processed) :
               /\ files_processed[n] \in done_folder
               /\ file_verdicts[files_processed[n]] = "true"
        /\ \A f \in 1..Len(file_verdicts) :
               file_verdicts[f] = "false" =>
                   /\ f \notin done_folder
                   /\ \E n \in 1..Len(files_failed) : files_failed[n] = f
                   /\ \A n \in 1..Len(files_processed) : files_processed[n] # f

C14_Witness ==
    /\ pc = "run_end"
    /\ file_verdicts = <<"false", "true">>
    /\ done_folder = {2}
    /\ files_processed = <<2>>
    /\ files_failed = <<1>>

\* C36: if parsing a downloaded file fails (malformed XML, or no record
\* elements found), the file does not get a true verdict: it is not moved to
\* the done folder and is not listed in files_processed.
C36_ParseFailureIsNotTrueVerdict ==
    \A f \in 1..Len(file_verdicts) :
        (remote_files[f].downloads /\ parse_file(remote_files[f].xml).raised) =>
            /\ file_verdicts[f] # "true"
            /\ f \notin done_folder
            /\ \A n \in 1..Len(files_processed) : files_processed[n] # f

IsInvalidOutcome(r) == r.status = "INVALID"

\* the last Len(file_results) entries of all_results
LastResults ==
    SubSeq(all_results, Len(all_results) - Len(file_results) + 1, Len(all_results))

\* C15: when an error reaches the except clause of _process_file, no further
\* batch is processed and the verdict is false; the outcomes returned are
\* the INVALID outcomes of the parse and one outcome for each record of the
\* batches that were completed, in order; run adds them to all_results and
\* does not move the file.
C15_ErrorKeepsCompletedOutcomes ==
    LET completed == IF fault = "ratelimit" THEN i + batch_size ELSE i
    IN  /\ (fault # "none" /\ pc \in {"returned", "run", "run_end"}) =>
                /\ ~verdict
                /\ Len(BatchOutcomes) = completed
                /\ completed < Len(deactivations)
                /\ OneOutcomePerRecord(BatchOutcomes, deactivations)
                /\ \A n \in 1..Len(BatchOutcomes) :
                       BatchOutcomes[n].status \in {"SUCCESS", "FAILED"}
                /\ SelectSeq(file_results, IsInvalidOutcome)
                       = InvalidResults(process_xml_file(xml).invalids)
                /\ Len(batch_sizes) <= CeilDiv(completed, batch_size) + 1
        /\ (fault # "none" /\ pc \in {"run", "run_end"}) =>
                /\ Len(all_results) >= Len(file_results)
                /\ LastResults = file_results
                /\ file_verdicts[file_idx] = "false"
                /\ file_idx \notin done_folder

C15_Witness ==
    /\ pc = "run"
    /\ fault = "ratelimit"
    /\ batch_size = 2
    /\ Len(deactivations) = 3
    /\ Len(file_results) = 3
    /\ file_results[1].status = "INVALID"
    /\ file_results[2].status = "SUCCESS"
    /\ file_results[3].status = "FAILED"
    /\ all_results = file_results
    /\ files_failed = <<1>>

(***************************************************************************)
(* core/esim_rsp_client.py : one expire_order call on an ESIMRSPClient     *)
(* with the _make_request calls it makes and the network requests these    *)
(* make.  uuid.uuid4() gives a value it never gave before (the n-th value  *)
(* is n); time.time() reads client.clock, which advances while the client  *)
(* waits.  retry_policy.max_attempts is max_attempts.                      *)
(***************************************************************************)
\* @retry(stop=stop_after_attempt(3), ...) on _make_request
TenacityAttempts == 3

\* expire_order: endpoint
ExpireEndpoint == "/redtea/rsp2/es2plus/order/expire"

\* what requests.request and raise_for_status do with one network request:
\* a 2xx response, or a RequestException with its text and, for an HTTP error
\* status, the response and its body text
NetworkOutcomes ==
    { [kind |-> "ok", cause |-> "", has_response |-> TRUE, text |-> "{}"],
      [kind |-> "ConnectionError", cause |-> "Connection refused",
       has_response |-> FALSE, text |-> ""],
      [kind |-> "Timeout", cause |-> "Read timed out",
       has_response |-> FALSE, text |-> ""],
      [kind |-> "HTTPError", cause |-> "500 Server Error",
       has_response |-> TRUE, text |-> "busy"],
      [kind |-> "HTTPError", cause |-> "401 Client Error",
       has_response |-> TRUE, text |-> ""] }

\* the arguments of expire_order; Absent is an argument left out or None
ExpireOrderArgs ==
    [iccid : {IccidA},
     final_status : {Absent, "Available"},
     matchingId : {Absent, "", "M-1"},
     eid : {Absent, "", "E-1"}]

\* Python's truth value of an optional text
Truthy(x) == x \notin {Absent, ""}

\* the dict d with d[key] = v
WithKey(d, key, v) ==
    [x \in DOMAIN d \cup {key} |-> IF x = key THEN v ELSE d[x]]

\* expire_order: payload
Payload(args, requester) ==
    LET payload == [iccid |-> args.iccid,
                    finalProfileStatusIndicator |->
                        IF args.final_status = Absent THEN "Unavailable"
                        ELSE args.final_status,
                    header |-> [functionRequesterIdentifier |-> requester,
                                functionCallIdentifier |-> "expireOrder"]]
        with_matching == IF Truthy(args.matchingId)
                         THEN WithKey(payload, "matchingId", args.matchingId)
                         ELSE payload
    IN  IF Truthy(args.eid) THEN WithKey(with_matching, "eid", args.eid)
        ELSE with_matching

\* _make_request: the RSPClientRequestError raised for a RequestException
RequestError(o) ==
    [type |-> "RSPClientRequestError",
     text |-> "API request failed: " \o o.cause
                \o (IF o.has_response THEN " | Response: " \o o.text ELSE "")]

\* tenacity: the RetryError raised when the last attempt failed; its text
\* names the finished attempt and the type of its exception
RetryError(inner) ==
    [type |-> "RetryError",
     text |-> "RetryError[<Future state=finished raised " \o inner.type \o ">]"]

NoError == [type |-> "", text |-> ""]

InitClient ==
    /\ xml = [wellformed |-> TRUE, items |-> <<>>]
    /\ max_attempts \in (0 - 1)..MaxAttemptsCfg
    /\ batch_size = 1
    /\ pc = "idle"
    /\ FileIdle
    /\ RunIdle
    /\ LockIdle
    /\ call = NoCall
    /\ \E args \in ExpireOrderArgs :
         client = [pc |-> "start", args |-> args, payload |-> [iccid |-> <<>>],
                   attempts |-> 0, tries |-> 0, uuids |-> 0, clock |-> 0,
                   headers |-> [request_id |-> 0, timestamp |-> 0],
                   outcome |-> "none", raised |-> NoError,
                   observed |-> NoError,
                   ret |-> [status |-> "none", attempts |-> 0, error |-> ""]]
    /\ sent = <<>>

\* expire_order builds the payload
ExpireOrderStart_KeepsEmptyIds ==
    /\ client.pc = "start"
    /\ client' = [client EXCEPT
                    !.pc = "attempt",
                    !.uuids = @ + 1,
                    !.payload =
                        LET payload == Payload([client.args EXCEPT
                                                  !.matchingId = Absent,
                                                  !.eid = Absent],
                                               client.uuids + 1)
                            with_matching ==
                                IF client.args.matchingId # Absent
                                THEN WithKey(payload, "matchingId",
                                             client.args.matchingId)
                                ELSE payload
                        IN  IF client.args.eid # Absent
                            THEN WithKey(with_matching, "eid", client.args.eid)
                            ELSE with_matching,
                    !.attempts = 0]
    /\ UNCHANGED <<sent, file_vars, run_vars, lock_vars, call>>

\* expire_order builds the payload; functionRequesterIdentifier is a uuid4
ExpireOrderStart ==
    /\ client.pc = "start"
    /\ client' = [client EXCEPT
                    !.pc = "attempt",
                    !.uuids = @ + 1,
                    !.payload = Payload(client.args, client.uuids + 1),
                    !.attempts = 0]
    /\ UNCHANGED <<sent, file_vars, run_vars, lock_vars, call>>

\* expire_order: attempts += 1 and the call of _make_request
BeginAttempt ==
    /\ client.pc = "attempt"
    /\ client' = [client EXCEPT
                    !.pc = "prepare",
                    !.attempts = @ + 1,
                    !.tries = 0]
    /\ UNCHANGED <<sent, file_vars, run_vars, lock_vars, call>>

\* PrepareHeaders keeping the headers of the first try of the call
PrepareHeaders_ReusesHeaders ==
    /\ client.pc = "prepare"
    /\ client' = [client EXCEPT
                    !.pc = "send",
                    !.tries = @ + 1,
                    !.uuids = IF client.tries = 0 THEN @ + 1 ELSE @,
                    !.headers = IF client.tries = 0
                                THEN [request_id |-> client.uuids + 1,
                                      timestamp |-> client.clock]
                                ELSE @]
    /\ UNCHANGED <<sent, file_vars, run_vars, lock_vars, call>>

\* _make_request, run by tenacity: headers = self._prepare_headers(body)
PrepareHeaders ==
    /\ client.pc = "prepare"
    /\ client' = [client EXCEPT
                    !.pc = "send",
                    !.tries = @ + 1,
                    !.uuids = @ + 1,
                    !.headers = [request_id |-> client.uuids + 1,
                                 timestamp |-> client.clock]]
    /\ UNCHANGED <<sent, file_vars, run_vars, lock_vars, call>>

\* _make_request: requests.request(...) and what follows; an exception of
\* the body is retried by tenacity until the third try and then replaced by
\* a RetryError, which is what expire_order catches
Send(o) ==
    /\ client.pc = "send"
    /\ sent' = Append(sent, [endpoint |-> ExpireEndpoint,
                             method |-> "POST",
                             body |-> client.payload,
                             request_id |-> client.headers.request_id,
                             timestamp |-> client.headers.timestamp,
                             sent_at |-> client.clock,
                             tenacity_try |-> client.tries,
                             ok |-> o.kind = "ok"])
    /\ client' =
         IF o.kind = "ok"
         THEN [client EXCEPT !.pc = "success", !.outcome = "response"]
         ELSE IF client.tries < TenacityAttempts
         THEN [client EXCEPT !.pc = "tenacity_wait",
                             !.raised = RequestError(o)]
         ELSE [client EXCEPT !.pc = "failure",
                             !.outcome = "error",
                             !.raised = RequestError(o),
                             !.observed = RetryError(RequestError(o))]
    /\ UNCHANGED <<file_vars, run_vars, lock_vars, call>>

\* tenacity: wait_exponential(multiplier=1, max=10) before the next try
TenacityWait ==
    /\ client.pc = "tenacity_wait"
    /\ client' = [client EXCEPT !.pc = "prepare", !.clock = @ + 1]
    /\ UNCHANGED <<sent, file_vars, run_vars, lock_vars, call>>

\* expire_order: the result of a call that got a response
ReturnSuccess ==
    /\ client.pc = "success"
    /\ client' = [client EXCEPT
                    !.pc = "done",
                    !.ret = [status |-> "success", attempts |-> client.attempts,
                             error |-> ""]]
    /\ UNCHANGED <<sent, file_vars, run_vars, lock_vars, call>>

\* HandleException retrying once more than the policy allows
HandleException_Inclusive ==
    /\ client.pc = "failure"
    /\ client' =
         IF client.attempts <= max_attempts
         THEN [client EXCEPT !.pc = "attempt", !.clock = @ + 1]
         ELSE [client EXCEPT
                 !.pc = "done",
                 !.ret = [status |-> "failed", attempts |-> client.attempts,
                          error |-> client.observed.text]]
    /\ UNCHANGED <<sent, file_vars, run_vars, lock_vars, call>>

\* expire_order: except Exception
HandleException ==
    /\ client.pc = "failure"
    /\ client' =
         IF can_retry(max_attempts, client.attempts)
         THEN [client EXCEPT !.pc = "attempt", !.clock = @ + 1]
         ELSE [client EXCEPT
                 !.pc = "done",
                 !.ret = [status |-> "failed", attempts |-> client.attempts,
                          error |-> client.observed.text]]
    /\ UNCHANGED <<sent, file_vars, run_vars, lock_vars, call>>

NextClient ==
    \/ ExpireOrderStart
    \/ BeginAttempt
    \/ PrepareHeaders
    \/ \E o \in NetworkOutcomes : Send(o)
    \/ TenacityWait
    \/ ReturnSuccess
    \/ HandleException

SpecClient == InitClient /\ [][NextClient]_vars

\* the call keeps running: no step of it waits for anything but time
SpecClientFair == SpecClient /\ WF_vars(NextClient)

\* C25: every network request, the retries of one expire operation included,
\* carries a Request-ID generated for it and a timestamp taken for it: no
\* two requests of the client share a Request-ID, and the timestamp of a
\* request is the time at which it is made.
C25_FreshRequestIdPerRequest ==
    /\ \A m \in 1..Len(sent) : \A n \in 1..Len(sent) :
           m # n => sent[m].request_id # sent[n].request_id
    /\ \A n \in 1..Len(sent) : sent[n].timestamp = sent[n].sent_at

\* three failed attempts of expire_order made nine requests
C25_Witness ==
    /\ client.pc = "done"
    /\ client.ret.status = "failed"
    /\ client.ret.attempts = 3
    /\ Len(sent) = 3 * TenacityAttempts
    /\ sent[1].request_id # sent[2].request_id
    /\ sent[3].request_id # sent[4].request_id

\* C26 (as claimed): when the network call fails at transport level, the
\* error the caller of _make_request observes is an RSPClientRequestError
\* carrying the original failure text (and the response body when there is
\* one).
C26_CallerObservesRequestError ==
    client.outcome = "error" =>
        /\ client.observed.type = "RSPClientRequestError"
        /\ client.observed.text = client.raised.text

\* C27: every request sent by expire_order is a POST to the expire-order
\* endpoint whose payload holds the given iccid, finalProfileStatusIndicator
\* ("Unavailable" unless overridden), header.functionCallIdentifier =
\* "expireOrder" and a functionRequesterIdentifier; matchingId and eid are in
\* the payload exactly when a non-empty value was supplied, and the payload
\* is the same on every retry.
C27_ExpireOrderRequest ==
    \A n \in 1..Len(sent) :
        LET body == sent[n].body IN
        /\ sent[n].endpoint = "/redtea/rsp2/es2plus/order/expire"
        /\ sent[n].method = "POST"
        /\ body.iccid = client.args.iccid
        /\ body.finalProfileStatusIndicator =
               (IF client.args.final_status = Absent THEN "Unavailable"
                ELSE client.args.final_status)
        /\ body.header.functionCallIdentifier = "expireOrder"
        /\ "functionRequesterIdentifier" \in DOMAIN body.header
        /\ ("matchingId" \in DOMAIN body) <=>
               client.args.matchingId \notin {Absent, ""}
        /\ "matchingId" \in DOMAIN body =>
               body.matchingId = client.args.matchingId
        /\ ("eid" \in DOMAIN body) <=> client.args.eid \notin {Absent, ""}
        /\ "eid" \in DOMAIN body => body.eid = client.args.eid
        /\ body = sent[1].body

\* a second attempt of expire_order sent the payload with the matchingId
\* supplied and without the empty eid
C27_Witness ==
    /\ client.attempts = 2
    /\ Len(sent) = TenacityAttempts + 1
    /\ client.args.matchingId = "M-1"
    /\ client.args.eid = ""
    /\ client.args.final_status = Absent
    /\ "matchingId" \in DOMAIN sent[Len(sent)].body
    /\ "eid" \notin DOMAIN sent[Len(sent)].body
    /\ sent[Len(sent)].body.finalProfileStatusIndicator = "Unavailable"

\* the _make_request calls made so far: the requests that are the first try
\* of a call
MakeRequestCalls == Cardinality({n \in 1..Len(sent) : sent[n].tenacity_try = 1})

\* at most max(1, max_attempts) calls, none after a successful request, and
\* a returned call has made one or more, as many as its attempts field tells
BoundedCalls ==
    /\ MakeRequestCalls <= (IF max_attempts > 1 THEN max_attempts ELSE 1)
    /\ \A n \in 1..(Len(sent) - 1) : ~sent[n].ok
    /\ client.pc = "done" =>
           /\ MakeRequestCalls >= 1
           /\ client.ret.attempts = MakeRequestCalls

\* C37: expire_order terminates for every sequence of transport results and
\* every value of max_attempts: it calls _make_request at least once and at
\* most max(1, max_attempts) times, makes no call after the first successful
\* one, and the returned attempts field equals the number of calls made.
C37_ExpireOrderTerminates ==
    /\ []BoundedCalls
    /\ <>(client.pc = "done")

\* a call with max_attempts = 0 that returned failed after one _make_request
\* call, which made three requests
C37_Witness ==
    /\ client.pc = "done"
    /\ max_attempts = 0
    /\ client.ret.status = "failed"
    /\ client.ret.attempts = 1
    /\ MakeRequestCalls = 1
    /\ Len(sent) = TenacityAttempts

====
